---- MODULE Spec2Model ----
(***************************************************************************)
(* Model of jolt-core's Zeromorph opening helpers                          *)
(* (poly/commitment/zeromorph.rs) and of the uniform Spartan SNARK         *)
(* (r1cs/spartan.rs).                                                      *)
(*                                                                         *)
(* Field elements are residues modulo the prime Modulus; every arithmetic  *)
(* operator below reduces modulo it.  Sequences are 1-based, so index i of *)
(* a Rust slice is index i+1 here.                                         *)
(***************************************************************************)
EXTENDS Integers, Sequences, FiniteSets, TLC

(***************************************************************************)
(* Bounds of the model.                                                    *)
(***************************************************************************)
\* largest number of variables of a polynomial given to the quotient builder
MaxVars == 2
\* largest number of non-zero entries of such a polynomial's table
MaxNonZero == 1
\* challenge points u and evaluation points z have coordinates in 0..MaxPoint
MaxPoint == 2
\* largest number of variables (length of challenges) in eval_and_quotient_scalars
MaxScalarVars == 3
\* the transcript answers a squeeze with a challenge in 0..MaxChallenge
MaxChallenge == 2
\* a usize has UsizeBits bits (the width of the machine word, scaled down)
UsizeBits == 4
\* the SRS given to trim holds 1..MaxSrsLen powers
MaxSrsLen == 5
\* trim is asked for a max_degree in 0..MaxTrimDegree
MaxTrimDegree == 7
\* largest number of variables of a polynomial in the element-wise runs
MaxParVars == 2
\* the tables, points and challenges of the element-wise runs are built from
\* values in 0..MaxParValue
MaxParValue == 2
\* largest number of variables of a single-step shape in the runs of eval_Z
MaxSelectVars == 3
\* largest number of witness segments supplied to the witness batching
MaxSegments == 3
\* largest length of a supplied witness segment
MaxSegmentLen == 2

(***************************************************************************)
(* The scalar field P::ScalarField.                                        *)
(***************************************************************************)
Modulus == 7
Field == 0 .. (Modulus - 1)

FAdd(a, b) == (a + b) % Modulus
FSub(a, b) == (a - b + Modulus) % Modulus
FNeg(a) == (Modulus - a) % Modulus
FMul(a, b) == (a * b) % Modulus

Pow2(k) == 2 ^ k

\* Field::pow: x^e by repeated multiplication (x^0 = 1, also for x = 0)
RECURSIVE FPow(_, _)
FPow(x, e) == IF e = 0 THEN 1 ELSE FMul(x, FPow(x, e - 1))

\* Field::inverse: the inverse of a non-zero element
FInv(a) == CHOOSE b \in Field : FMul(a, b) = 1

\* Rust's Vec::reverse / Iterator::rev
Reverse(s) == [i \in 1 .. Len(s) |-> s[Len(s) + 1 - i]]

\* all sequences of length n over S
SeqsOf(S, n) == [1 .. n -> S]

(***************************************************************************)
(* DensePolynomial::evaluate and EqPolynomial: the multilinear extension   *)
(* of a table of 2^n values; r[1] is the most significant index bit.       *)
(***************************************************************************)
RECURSIVE EqTerm(_, _, _)
\* eq(r[1..m], idx) = prod_{j<=m} (bit_j(idx) ? r[j] : 1 - r[j]), where bit_m(idx)
\* is the least significant bit of the m-bit index idx
EqTerm(r, idx, m) ==
    IF m = 0 THEN 1
    ELSE FMul(EqTerm(r, idx \div 2, m - 1),
              IF idx % 2 = 1 THEN r[m] ELSE FSub(1, r[m]))

\* EqPolynomial::new(r).evals(): the table of eq(r, idx), idx in 0..2^n-1 (1-based)
EqEvals(r) == [i \in 1 .. Pow2(Len(r)) |-> EqTerm(r, i - 1, Len(r))]

RECURSIVE EvalFrom(_, _, _)
\* sum over idx >= i of Z[idx] * eq(r, idx) (a zero entry contributes zero)
EvalFrom(Z, r, i) ==
    IF i > Len(Z) THEN 0
    ELSE FAdd(IF Z[i] = 0 THEN 0
              ELSE FMul(Z[i], EqTerm(r, i - 1, Len(r))),
              EvalFrom(Z, r, i + 1))

\* DensePolynomial::new(Z).evaluate(r) = sum_idx Z[idx] * eq(r, idx)
Evaluate(Z, r) == EvalFrom(Z, r, 1)

(***************************************************************************)
(* State.                                                                  *)
(***************************************************************************)
VARIABLES
    \* compute_multilinear_quotients
    mq_pc,          \* "idle", "start", "map", "done", "panic"
    poly,           \* poly.Z, the table of the dense polynomial (2^n values)
    u_challenge,    \* the opening point
    g,              \* the working table, folded in place
    quotients,      \* the quotients collected so far
    mq_i,           \* index i of the next iteration of the map closure
    constant_term,  \* the returned g[0]; "none" until the call returns
    \* compute_batched_lifted_degree_quotient
    bl_pc,          \* "idle", "start", "fold", "done", "panic"
    bl_n,           \* the argument n, the length of q_hat
    bl_quotients,   \* the argument quotients: q_k is bl_quotients[k + 1]
    y_challenge,    \* the argument y_challenge
    q_hat,          \* the accumulator of the fold
    scalar,         \* y^k
    bl_idx,         \* index idx of the next quotient to accumulate
    \* eval_and_quotient_scalars
    sc_pc,          \* "idle", "start", "squares", "offsets", "vs", "done"
    x_challenge,    \* the argument x_challenge
    sc_y,           \* the argument y_challenge
    z_challenge,    \* the argument z_challenge
    challenges,     \* the argument challenges (the point u)
    squares_of_x,   \* [x, x^2, x^4, .., x^(2^num_vars)]
    offsets_of_x,
    vs,
    sc_result,      \* the returned (scalar, (zeta scalars, Z scalars)); "none" before
    \* UniformSpartanProof
    sp_pc,          \* "idle", "setup", "prove", "verify"
    circuit,        \* the single-step shape given to setup_precommitted
    num_steps,      \* the number of steps given to setup_precommitted
    key,            \* the UniformSpartanKey; "none" before setup
    w_segments,     \* the witness segments given to prove_precommitted
    witness_commitments, \* the commitments given to prove_precommitted
    oracle,         \* the transcript's answers so far: squeeze history |-> challenge
    prover,         \* the locals of prove_precommitted
    proof,          \* the UniformSpartanProof given to verify_precommitted
    corruption,     \* which entry of outer_sumcheck_claims was replaced, and its
                    \* value before; entry 0: none
    verifier,       \* the locals of verify_precommitted
    \* ZeromorphSRS::trim
    tm_pc,          \* "idle", "start", "check", "done"
    srs,            \* self.0: the powers held by the SRS
    tm_max_degree,  \* the argument max_degree
    build,          \* "debug": arithmetic overflow panics; "release": it wraps
    tm_offset,      \* the local offset
    tm_result,      \* what the call returned, or the panic; kind "none" before
    \* the matrix evaluations of UniformSpartanProof at given points
    ev_pc,          \* "idle", "start", "table", "done"
    ev_key,         \* the UniformSpartanKey
    ev_r_x,         \* the point r_x
    ev_r,           \* the challenge r
    ev_r_y,         \* the point r_y
    ev_RLC,         \* RLC_evals, the table the prover builds as poly_ABC
    ev_evals,       \* evals, the result of the verifier's multi_evaluate_uniform
    \* compute_multilinear_quotients, then compute_batched_lifted_degree_quotient
    \* on its quotients, every for_each run element by element (multicore)
    par_pc,         \* "idle", "map", "quot", "lo", "batch", "fold", "acc", "done"
    par_poly,       \* poly.Z
    par_u,          \* u_challenge
    par_y,          \* y_challenge
    par_g,          \* the working table g
    par_quotient,   \* the vector quotient of the current iteration of the map
    par_quotients,  \* the quotients collected, reversed at the return
    par_i,          \* index i of the iteration of the map
    par_constant_term, \* the returned g[0]; "none" before
    par_todo,       \* the elements the running for_each has not visited yet
    par_q_hat,      \* the accumulator q_hat
    par_scalar,     \* y^k
    par_idx,        \* index idx of the step of the fold
    par_reordered,  \* TRUE once a for_each visited an element before a lower one
    \* one call of the closure comb_func_outer
    cb_pc,          \* "idle", "call", "done"
    cb_a,           \* poly_A_comp
    cb_b,           \* poly_B_comp
    cb_c,           \* poly_C_comp
    cb_d,           \* poly_D_comp
    cb_result,      \* the value returned; "none" before
    \* eval_Z of verify_precommitted
    sl_pc,          \* "idle", "call", "done"
    sl_key,         \* the key
    sl_proof,       \* witness_segment_commitments and eval_W of the proof
    sl_r_y,         \* r_y
    sl_result,      \* n_prefix, eval_W, eval_X, eval_Z, or the panic
    \* the witness batching and resizing of prove_precommitted
    wp_pc,          \* "idle", "batch", "resize", "done"
    wp_key,         \* the key
    wp_segments,    \* w_segments
    wp_witness,     \* witness
    wp_result       \* "none", "witness" or "panic"

mqVars == <<mq_pc, poly, u_challenge, g, quotients, mq_i, constant_term>>
blVars == <<bl_pc, bl_n, bl_quotients, y_challenge, q_hat, scalar, bl_idx>>
scVars == <<sc_pc, x_challenge, sc_y, z_challenge, challenges, squares_of_x,
            offsets_of_x, vs, sc_result>>
spVars == <<sp_pc, circuit, num_steps, key, w_segments, witness_commitments, oracle,
            prover, proof, corruption, verifier>>

tmVars == <<tm_pc, srs, tm_max_degree, build, tm_offset, tm_result>>

evVars == <<ev_pc, ev_key, ev_r_x, ev_r, ev_r_y, ev_RLC, ev_evals>>

parVars == <<par_pc, par_poly, par_u, par_y, par_g, par_quotient, par_quotients, par_i,
             par_constant_term, par_todo, par_q_hat, par_scalar, par_idx, par_reordered>>

cbVars == <<cb_pc, cb_a, cb_b, cb_c, cb_d, cb_result>>

slVars == <<sl_pc, sl_key, sl_proof, sl_r_y, sl_result>>

wpVars == <<wp_pc, wp_key, wp_segments, wp_witness, wp_result>>

vars == <<mqVars, blVars, scVars, spVars, tmVars, evVars, parVars, cbVars, slVars, wpVars>>

(***************************************************************************)
(* compute_multilinear_quotients (zeromorph.rs:123-169)                    *)
(***************************************************************************)
\* poly.get_num_vars(): log2 of the table length
NumVarsOf(Z) == CHOOSE k \in 0 .. Len(Z) : Pow2(k) = Len(Z)

\* QuotientOf with the operands swapped: g_lo[j] - g_hi[j]
QuotientOfSwapped(tbl, half) == [j \in 1 .. half |-> FSub(tbl[j], tbl[half + j])]

\* the map closure's first for_each: quotient[j] = g_hi[j] - g_lo[j]
QuotientOf(tbl, half) == [j \in 1 .. half |-> FSub(tbl[half + j], tbl[j])]

\* FoldLo without the subtraction of g_lo: g_lo[j] += g_hi[j] * x_i
FoldLoNoSub(tbl, half, x) ==
    [j \in 1 .. half |-> FAdd(tbl[j], FMul(tbl[half + j], x))]

\* the map closure's second for_each and the truncate:
\* g_lo[j] += (g_hi[j] - g_lo[j]) * x_i, then g is cut to g_lo
FoldLo(tbl, half, x) ==
    [j \in 1 .. half |-> FAdd(tbl[j], FMul(FSub(tbl[half + j], tbl[j]), x))]

\* tables of 2^n field values with at most MaxNonZero non-zero entries
SparseTables(n) ==
    {t \in SeqsOf(Field, Pow2(n)) :
        Cardinality({i \in 1 .. Pow2(n) : t[i] # 0}) <= MaxNonZero}

PointVals == 0 .. (IF MaxPoint < Modulus THEN MaxPoint ELSE Modulus - 1)

MQIdle ==
    /\ mq_pc = "idle"
    /\ poly = <<>>
    /\ u_challenge = <<>>
    /\ g = <<>>
    /\ quotients = <<>>
    /\ mq_i = 0
    /\ constant_term = "none"

MQInit ==
    /\ mq_pc = "start"
    /\ \E n \in 0 .. MaxVars : poly \in SparseTables(n)
    /\ \E m \in 0 .. MaxVars : u_challenge \in SeqsOf(PointVals, m)
    /\ g = <<>>
    /\ quotients = <<>>
    /\ mq_i = 0
    /\ constant_term = "none"

\* assert_eq!(poly.get_num_vars(), u_challenge.len()) holds; g = poly.Z.to_vec()
MQEnter ==
    /\ mq_pc = "start"
    /\ NumVarsOf(poly) = Len(u_challenge)
    /\ g' = poly
    /\ mq_pc' = "map"
    /\ UNCHANGED <<poly, u_challenge, quotients, mq_i, constant_term>>

\* the assertion fails: the call panics
MQAssertFail ==
    /\ mq_pc = "start"
    /\ NumVarsOf(poly) # Len(u_challenge)
    /\ mq_pc' = "panic"
    /\ UNCHANGED <<poly, u_challenge, g, quotients, mq_i, constant_term>>

\* one iteration (i, x_i) of the map closure
MQStep ==
    /\ mq_pc = "map"
    /\ mq_i < Len(u_challenge)
    /\ LET half == Pow2(NumVarsOf(poly) - 1 - mq_i)
           x_i == u_challenge[mq_i + 1]
       IN  /\ quotients' = Append(quotients, QuotientOf(g, half))
           /\ g' = FoldLo(g, half, x_i)
    /\ mq_i' = mq_i + 1
    /\ UNCHANGED <<mq_pc, poly, u_challenge, constant_term>>

\* quotients.reverse(); (quotients, g[0])
MQReturn ==
    /\ mq_pc = "map"
    /\ mq_i = Len(u_challenge)
    /\ quotients' = Reverse(quotients)
    /\ constant_term' = g[1]
    /\ mq_pc' = "done"
    /\ UNCHANGED <<poly, u_challenge, g, mq_i>>

MQNext == MQEnter \/ MQAssertFail \/ MQStep \/ MQReturn

(***************************************************************************)
(* compute_batched_lifted_degree_quotient (zeromorph.rs:171-200)           *)
(***************************************************************************)
Min(a, b) == IF a < b THEN a ELSE b

\* AccumulateInto storing instead of accumulating: *q_hat = scalar * q
AccumulateAssign(qh, n, idx, q, sc) ==
    LET off == n - Pow2(idx)
        cnt == Min(Pow2(idx), Len(q))
    IN  [i \in 1 .. n |->
            IF i > off /\ i <= off + cnt THEN FMul(sc, q[i - off]) ELSE qh[i]]

\* q_hat[n - (1 << idx)..].iter_mut().zip(&q.as_vec()).for_each(*q_hat += scalar * q):
\* the zip stops at the shorter of the slice (2^idx entries) and q
AccumulateInto(qh, n, idx, q, sc) ==
    LET off == n - Pow2(idx)
        cnt == Min(Pow2(idx), Len(q))
    IN  [i \in 1 .. n |->
            IF i > off /\ i <= off + cnt
            THEN FAdd(qh[i], FMul(sc, q[i - off]))
            ELSE qh[i]]

\* the largest number of quotients in a batch
MaxQuotients == MaxVars + 1
\* the largest number of non-zero coefficients in a batch
MaxBatchNonZero == MaxNonZero + 1

\* the positions <<k, j>> of the coefficients of q_0 .. q_{m-1}, q_k of length 2^k
CoefPositions(m) == {p \in (1 .. m) \X (1 .. Pow2(m)) : p[2] <= Pow2(p[1] - 1)}

\* lists q_0 .. q_{m-1}, q_k of length 2^k, with coefficients in PointVals and
\* at most MaxBatchNonZero of them non-zero
QuotientLists(m) ==
    {[k \in 1 .. m |-> [j \in 1 .. Pow2(k - 1) |->
            IF <<k, j>> \in DOMAIN a THEN a[<<k, j>>] ELSE 0]] :
        a \in UNION {[S -> PointVals \ {0}] :
                        S \in {T \in SUBSET CoefPositions(m) :
                                  Cardinality(T) <= MaxBatchNonZero}}}

\* the least n the fold accepts for m quotients
MinLen(m) == IF m = 0 THEN 0 ELSE Pow2(m - 1)
\* the values of n tried with m quotients: N = 2^m, the least one, its neighbours
LenChoices(m) ==
    {n \in {MinLen(m) - 1, MinLen(m), MinLen(m) + 1, Pow2(m)} : n >= 0}

BLIdle ==
    /\ bl_pc = "idle"
    /\ bl_n = 0
    /\ bl_quotients = <<>>
    /\ y_challenge = 0
    /\ q_hat = <<>>
    /\ scalar = 0
    /\ bl_idx = 0

BLInit ==
    /\ bl_pc = "start"
    /\ \E m \in 0 .. MaxQuotients :
          /\ bl_quotients \in QuotientLists(m)
          /\ bl_n \in LenChoices(m)
    /\ y_challenge \in Field
    /\ q_hat = <<>>
    /\ scalar = 0
    /\ bl_idx = 0

\* let mut scalar = one(); the fold starts from vec![zero(); n]
BLEnter ==
    /\ bl_pc = "start"
    /\ scalar' = 1
    /\ q_hat' = [i \in 1 .. bl_n |-> 0]
    /\ bl_pc' = "fold"
    /\ UNCHANGED <<bl_n, bl_quotients, y_challenge, bl_idx>>

\* one step (idx, q) of the fold: accumulate, then scalar *= y_challenge
BLAccumulate ==
    /\ bl_pc = "fold"
    /\ bl_idx < Len(bl_quotients)
    /\ bl_n >= Pow2(bl_idx)
    /\ q_hat' = AccumulateInto(q_hat, bl_n, bl_idx, bl_quotients[bl_idx + 1], scalar)
    /\ scalar' = FMul(scalar, y_challenge)
    /\ bl_idx' = bl_idx + 1
    /\ UNCHANGED <<bl_pc, bl_n, bl_quotients, y_challenge>>

\* n - (1 << idx) underflows (or, wrapped, is past the end of q_hat): panic
BLUnderflow ==
    /\ bl_pc = "fold"
    /\ bl_idx < Len(bl_quotients)
    /\ bl_n < Pow2(bl_idx)
    /\ bl_pc' = "panic"
    /\ UNCHANGED <<bl_n, bl_quotients, y_challenge, q_hat, scalar, bl_idx>>

\* UniPoly::from_coeff(q_hat)
BLReturn ==
    /\ bl_pc = "fold"
    /\ bl_idx = Len(bl_quotients)
    /\ bl_pc' = "done"
    /\ UNCHANGED <<bl_n, bl_quotients, y_challenge, q_hat, scalar, bl_idx>>

BLNext == BLEnter \/ BLAccumulate \/ BLUnderflow \/ BLReturn

RECURSIVE BatchedFold(_, _, _, _)
\* the value of the whole fold over the first m quotients (n >= 2^(m-1))
BatchedFold(n, qs, y, m) ==
    IF m = 0 THEN [i \in 1 .. n |-> 0]
    ELSE AccumulateInto(BatchedFold(n, qs, y, m - 1), n, m - 1, qs[m],
                        FPow(y, m - 1))

(***************************************************************************)
(* eval_and_quotient_scalars (zeromorph.rs:202-265)                        *)
(***************************************************************************)
RECURSIVE SquaresOfX(_, _)
\* iter::successors(Some(x), |&x| Some(x.square())).take(cnt)
SquaresOfX(x, cnt) ==
    IF cnt = 0 THEN <<>>
    ELSE IF cnt = 1 THEN <<x>>
    ELSE LET prev == SquaresOfX(x, cnt - 1)
         IN  Append(prev, FMul(prev[cnt - 1], prev[cnt - 1]))

RECURSIVE ScanProduct(_, _)
\* .scan(one(), |acc, pow_x| { *acc *= pow_x; Some(*acc) }) over the first cnt items
ScanProduct(s, cnt) ==
    IF cnt = 0 THEN <<>>
    ELSE IF cnt = 1 THEN <<FMul(1, s[1])>>
    ELSE LET prev == ScanProduct(s, cnt - 1)
         IN  Append(prev, FMul(prev[cnt - 1], s[cnt]))

\* Iterator::skip(1)
Skip1(s) == IF Len(s) = 0 THEN <<>> ELSE SubSeq(s, 2, Len(s))

\* OffsetsOfX without the skip(1): the scan starts at x^(2^num_vars)
OffsetsOfXNoSkip(sq) ==
    LET r == Reverse(sq) IN Reverse(ScanProduct(r, Len(r) - 1))

\* squares_of_x.iter().rev().skip(1).scan(..).collect(), then reverse()
OffsetsOfX(sq) ==
    LET r == Skip1(Reverse(sq)) IN Reverse(ScanProduct(r, Len(r)))

\* ark_ff::batch_inversion: every non-zero entry is inverted, a zero entry stays zero
BatchInversion(v) == [i \in 1 .. Len(v) |-> IF v[i] = 0 THEN 0 ELSE FInv(v[i])]

\* VsOf with the numerator taken one square too early: x^(2^(num_vars-1)) - 1
VsOfEarlyNumer(sq, num_vars) ==
    LET v_numer == FSub(sq[IF num_vars = 0 THEN 1 ELSE num_vars], 1)
        v_denoms == BatchInversion([i \in 1 .. Len(sq) |-> FSub(sq[i], 1)])
    IN  [i \in 1 .. Len(sq) |-> FMul(v_numer, v_denoms[i])]

\* vs: v_numer = x^(2^num_vars) - 1, v_denoms = batch-inverted (x^(2^i) - 1)
VsOf(sq, num_vars) ==
    LET v_numer == FSub(sq[num_vars + 1], 1)
        v_denoms == BatchInversion([i \in 1 .. Len(sq) |-> FSub(sq[i], 1)])
    IN  [i \in 1 .. Len(sq) |-> FMul(v_numer, v_denoms[i])]

\* iter::successors(Some(one()), |acc| Some(*acc * y)): its item k (0-based)
RECURSIVE PowerOfY(_, _)
PowerOfY(y, k) == IF k = 0 THEN 1 ELSE FMul(PowerOfY(y, k - 1), y)

\* ZScalar taking the challenges in forward order: u_i = challenges[k]
ZScalarForward(z, sq, v, u, k) ==
    FNeg(FMul(z, FSub(FMul(sq[k + 1], v[k + 2]), FMul(u[k + 1], v[k + 1]))))

\* item k of q_scalars.1: -(z * (square_of_x * v_j - u_i * v_i)), where
\* v_i = vs[k], v_j = vs[k + 1] and u_i = challenges.iter().rev()[k]
ZScalar(z, sq, v, u, k) ==
    FNeg(FMul(z, FSub(FMul(sq[k + 1], v[k + 2]),
                      FMul(Reverse(u)[k + 1], v[k + 1]))))

\* ZetaScalar without the negation
ZetaScalarNoNeg(y, off, k) == FMul(PowerOfY(y, k), off[k + 1])

\* item k of q_scalars.0: -(power_of_y * offset_of_x)
ZetaScalar(y, off, k) == FNeg(FMul(PowerOfY(y, k), off[k + 1]))

SCIdle ==
    /\ sc_pc = "idle"
    /\ x_challenge = 0
    /\ sc_y = 0
    /\ z_challenge = 0
    /\ challenges = <<>>
    /\ squares_of_x = <<>>
    /\ offsets_of_x = <<>>
    /\ vs = <<>>
    /\ sc_result = "none"

SCInit ==
    /\ sc_pc = "start"
    /\ x_challenge \in Field
    /\ sc_y \in Field
    /\ z_challenge \in Field
    /\ \E n \in 0 .. MaxScalarVars : challenges \in SeqsOf(PointVals, n)
    /\ squares_of_x = <<>>
    /\ offsets_of_x = <<>>
    /\ vs = <<>>
    /\ sc_result = "none"

SCSquares ==
    /\ sc_pc = "start"
    /\ squares_of_x' = SquaresOfX(x_challenge, Len(challenges) + 1)
    /\ sc_pc' = "squares"
    /\ UNCHANGED <<x_challenge, sc_y, z_challenge, challenges, offsets_of_x, vs,
                   sc_result>>

SCOffsets ==
    /\ sc_pc = "squares"
    /\ offsets_of_x' = OffsetsOfX(squares_of_x)
    /\ sc_pc' = "offsets"
    /\ UNCHANGED <<x_challenge, sc_y, z_challenge, challenges, squares_of_x, vs,
                   sc_result>>

SCVs ==
    /\ sc_pc = "offsets"
    /\ vs' = VsOf(squares_of_x, Len(challenges))
    /\ sc_pc' = "vs"
    /\ UNCHANGED <<x_challenge, sc_y, z_challenge, challenges, squares_of_x,
                   offsets_of_x, sc_result>>

\* q_scalars and the returned tuple (-vs[0] * z_challenge, q_scalars)
SCReturn ==
    /\ sc_pc = "vs"
    /\ LET num_vars == Len(challenges)
       IN  sc_result' =
             [scalar |-> FMul(FNeg(vs[1]), z_challenge),
              zeta |-> [i \in 1 .. num_vars |->
                           ZetaScalar(sc_y, offsets_of_x, i - 1)],
              zx |-> [i \in 1 .. num_vars |->
                         ZScalar(z_challenge, squares_of_x, vs, challenges, i - 1)]]
    /\ sc_pc' = "done"
    /\ UNCHANGED <<x_challenge, sc_y, z_challenge, challenges, squares_of_x,
                   offsets_of_x, vs>>

SCNext == SCSquares \/ SCOffsets \/ SCVs \/ SCReturn

(***************************************************************************)
(* UniformSpartanProof (spartan.rs): shapes, key and transcript            *)
(***************************************************************************)
\* usize::next_power_of_two
NextPowerOfTwo(n) == IF n <= 1 THEN 1
                     ELSE CHOOSE p \in 1 .. (2 * n) :
                            /\ \E k \in 0 .. n : p = Pow2(k)
                            /\ p >= n
                            /\ p < 2 * n

\* usize::ilog2 (of a non-zero value)
ILog2(n) == CHOOSE k \in 0 .. n : Pow2(k) <= n /\ n < Pow2(k + 1)

\* usize::trailing_zeros (of a non-zero value)
TrailingZeros(n) == CHOOSE k \in 0 .. n : n % Pow2(k) = 0 /\ n % Pow2(k + 1) # 0

\* a single-step shape: rows and columns are 0-based as in the code, column
\* num_vars is the constant column.  w0 * (w0 + 1) = w1
ShapeStep ==
    [num_cons |-> 1, num_vars |-> 2,
     A |-> << <<0, 0, 1>> >>,
     B |-> << <<0, 0, 1>>, <<0, 2, 1>> >>,
     C |-> << <<0, 1, 1>> >>]

Circuits == {ShapeStep}
StepCounts == {2}

\* the witness segments of ShapeStep over two steps with w0 = a, b; cheat = 0
\* gives a satisfying witness
StepSegments(a, b, cheat) ==
    << <<a, b>>, <<FAdd(FMul(a, FAdd(a, 1)), cheat), FMul(b, FAdd(b, 1))>> >>

WitnessChoices == {StepSegments(1, 3, 0), StepSegments(2, 0, 0), StepSegments(1, 3, 1)}

\* the commitments to n segments, opaque values
CommitmentChoices(n) == {[i \in 1 .. n |-> i]}

\* setup_precommitted: the key of a circuit and a number of steps
SetupKey(shape, N) ==
    [shape_single_step |-> shape,
     shape_full |-> [num_cons |-> shape.num_cons * N, num_vars |-> shape.num_vars * N],
     num_cons_total |-> NextPowerOfTwo(shape.num_cons * N),
     num_vars_total |-> NextPowerOfTwo(shape.num_vars * N),
     num_steps |-> N,
     vk_digest |-> 1]

\* the answers of the transcript
ChallengeVals == 0 .. (IF MaxChallenge < Modulus THEN MaxChallenge ELSE Modulus - 1)

\* TranscriptEngine::absorb: the transcript is the sequence of its operations
Absorb(tr, label, value) == Append(tr, <<"absorb", label, value>>)

\* TranscriptEngine::squeeze, first half: the operation enters the transcript
SqueezeOp(tr, label) == Append(tr, <<"squeeze", label>>)

\* TranscriptEngine::squeeze, second half: the challenge v answers history h;
\* the same history is answered with the same challenge
Squeezed(h, v) ==
    IF h \in DOMAIN oracle
    THEN v = oracle[h] /\ oracle' = oracle
    ELSE v \in ChallengeVals /\ oracle' = (h :> v) @@ oracle

\* TranscriptEngine::squeeze returns Err(e), the randomness source exhausted or
\* misconfigured: the `?` of the given line returns Err(e) from the call
SqueezeFailed(locals, line) ==
    [locals EXCEPT !.pc = "done", !.result = "SqueezeError", !.line = line]

(***************************************************************************)
(* Sum-check (SumcheckInstanceProof): a round polynomial is the sequence   *)
(* of its values at 0, 1, .., degree.                                      *)
(***************************************************************************)
\* DensePolynomial::bound_poly_var_top: bind the most significant variable to r
BindTop(T, r) ==
    LET half == Len(T) \div 2
    IN  [j \in 1 .. half |-> FAdd(T[j], FMul(r, FSub(T[half + j], T[j])))]

RECURSIVE SumSeq(_, _)
SumSeq(s, cnt) == IF cnt = 0 THEN 0 ELSE FAdd(SumSeq(s, cnt - 1), s[cnt])

RECURSIVE ProdOver(_, _, _, _)
\* prod over j in 0..d, j # i, of (r - j) / (i - j)
ProdOver(r, i, d, j) ==
    IF j > d THEN 1
    ELSE IF j = i THEN ProdOver(r, i, d, j + 1)
    ELSE FMul(FMul(FSub(r, j % Modulus), FInv(FSub(i % Modulus, j % Modulus))),
              ProdOver(r, i, d, j + 1))

RECURSIVE LagrangeFrom(_, _, _)
LagrangeFrom(evals, r, i) ==
    IF i > Len(evals) - 1 THEN 0
    ELSE FAdd(FMul(evals[i + 1], ProdOver(r, i, Len(evals) - 1, 0)),
              LagrangeFrom(evals, r, i + 1))

\* UniPoly::evaluate of the round polynomial with values evals at 0..degree
EvalRoundPoly(evals, r) == LagrangeFrom(evals, r, 0)

\* a zero-skipping that also skips the additive term
CombFuncOuterSkipD(a, b, c, d) ==
    IF b = 0 \/ c = 0 THEN 0 ELSE FMul(a, FSub(FMul(b, c), d))

\* comb_func_outer (spartan.rs:148-160)
CombFuncOuter(a, b, c, d) ==
    IF b = 0 \/ c = 0
    THEN IF d = 0 THEN 0 ELSE FMul(a, FNeg(d))
    ELSE FMul(a, FSub(FMul(b, c), d))

\* comb_func (spartan.rs:268-274)
CombFunc(a, b) == IF a = 0 \/ b = 0 THEN 0 ELSE FMul(a, b)

\* one round of prove_cubic_with_additive_term: the values at 0..3 of
\* sum_x comb(A(t, x), B(t, x), C(t, x), D(t, x))
CubicRoundPoly(TA, TB, TC, TD) ==
    [i \in 1 .. 4 |->
        LET t == i - 1
            a == BindTop(TA, t)
            b == BindTop(TB, t)
            c == BindTop(TC, t)
            d == BindTop(TD, t)
        IN  SumSeq([j \in 1 .. Len(a) |-> CombFuncOuter(a[j], b[j], c[j], d[j])],
                   Len(a))]

\* one round of prove_quad_unrolled: the values at 0..2 of sum_y comb(A(t, y), B(t, y))
QuadRoundPoly(TA, TB) ==
    [i \in 1 .. 3 |->
        LET t == i - 1
            a == BindTop(TA, t)
            b == BindTop(TB, t)
        IN  SumSeq([j \in 1 .. Len(a) |-> CombFunc(a[j], b[j])], Len(a))]

(***************************************************************************)
(* prove_precommitted                                                      *)
(***************************************************************************)
RECURSIVE Concat(_, _)
\* the segments from the i-th on, one after the other
Concat(segs, i) == IF i > Len(segs) THEN <<>> ELSE segs[i] \o Concat(segs, i + 1)

\* Vec::resize(n, 0)
Resize(v, n) == [i \in 1 .. n |-> IF i <= Len(v) THEN v[i] ELSE 0]

NumRoundsX(k) == ILog2(k.num_cons_total)
NumRoundsY(k) == ILog2(k.num_vars_total) + 1
NPrefix(k) == (TrailingZeros(k.num_vars_total) - TrailingZeros(k.num_steps)) + 1

RECURSIVE RowSum(_, _, _, _, _, _)
\* sum of val * z[col * N + t] over the entries (row, col, val) of M from the
\* i-th on, z the witness followed by the constant 1 at the constant column
RowSum(M, i, row, t, w, k) ==
    IF i > Len(M) THEN 0
    ELSE FAdd(IF M[i][1] # row THEN 0
              ELSE FMul(M[i][3],
                        IF M[i][2] # k.shape_single_step.num_vars
                        THEN w[M[i][2] * k.num_steps + t + 1]
                        ELSE 1),
              RowSum(M, i + 1, row, t, w, k))

\* multiply_vec_uniform: the table of M z over the padded rows, row * N + t
\* the row of the full shape
MultiplyVecUniform(M, w, k) ==
    [R \in 1 .. k.num_cons_total |->
        RowSum(M, 1, (R - 1) \div k.num_steps, (R - 1) % k.num_steps, w, k)]

PStartLocals ==
    [pc |-> "start", transcript |-> <<>>, witness |-> <<>>, tau |-> <<>>,
     poly_tau |-> <<>>, poly_Az |-> <<>>, poly_Bz |-> <<>>, poly_Cz |-> <<>>,
     sc_proof_outer |-> <<>>, r_x |-> <<>>, claims_outer |-> <<>>, r |-> 0,
     claim |-> 0, poly_ABC |-> <<>>, poly_Z |-> <<>>, sc_proof_inner |-> <<>>,
     r_y |-> <<>>, witness_evals |-> <<>>, result |-> "none", line |-> 0]

\* lines 101-123: absorb vk and U, concatenate and resize the witness
PStart ==
    /\ sp_pc = "prove"
    /\ prover.pc = "start"
    /\ prover' = [prover EXCEPT
         !.pc = "tau",
         !.transcript = Absorb(Absorb(<<>>, "vk", key.vk_digest),
                               "U", witness_commitments),
         !.witness = Resize(Concat(w_segments, 1), key.num_vars_total)]
    /\ UNCHANGED <<sp_pc, circuit, num_steps, key, w_segments, witness_commitments,
                   oracle, proof, corruption, verifier>>

\* lines 131-133: one squeeze of tau
PSqueezeTau ==
    /\ sp_pc = "prove"
    /\ prover.pc = "tau"
    /\ Len(prover.tau) < NumRoundsX(key)
    /\ LET h == SqueezeOp(prover.transcript, "t")
       IN  \/ \E v \in ChallengeVals :
                /\ Squeezed(h, v)
                /\ prover' = [prover EXCEPT !.transcript = h,
                                            !.tau = Append(@, v)]
           \/ /\ prover' = SqueezeFailed(prover, 133)
              /\ UNCHANGED oracle
    /\ UNCHANGED <<sp_pc, circuit, num_steps, key, w_segments, witness_commitments,
                   proof, corruption, verifier>>

\* lines 135-146: the tables of eq(tau, .), Az, Bz, Cz
POuterTables ==
    /\ sp_pc = "prove"
    /\ prover.pc = "tau"
    /\ Len(prover.tau) = NumRoundsX(key)
    /\ prover' = [prover EXCEPT
         !.pc = "outer",
         !.poly_tau = EqEvals(prover.tau),
         !.poly_Az = MultiplyVecUniform(key.shape_single_step.A, prover.witness, key),
         !.poly_Bz = MultiplyVecUniform(key.shape_single_step.B, prover.witness, key),
         !.poly_Cz = MultiplyVecUniform(key.shape_single_step.C, prover.witness, key)]
    /\ UNCHANGED <<sp_pc, circuit, num_steps, key, w_segments, witness_commitments,
                   oracle, proof, corruption, verifier>>

\* one round of prove_cubic_with_additive_term (line 163): the round
\* polynomial is absorbed, the challenge squeezed, the tables bound to it
POuterRound ==
    /\ sp_pc = "prove"
    /\ prover.pc = "outer"
    /\ Len(prover.r_x) < NumRoundsX(key)
    /\ LET round_poly == CubicRoundPoly(prover.poly_tau, prover.poly_Az,
                                        prover.poly_Bz, prover.poly_Cz)
           h == SqueezeOp(Absorb(prover.transcript, "p", round_poly), "c")
       IN  \/ \E v \in ChallengeVals :
                /\ Squeezed(h, v)
                /\ prover' = [prover EXCEPT
                     !.transcript = h,
                     !.sc_proof_outer = Append(@, round_poly),
                     !.r_x = Append(@, v),
                     !.poly_tau = BindTop(@, v),
                     !.poly_Az = BindTop(@, v),
                     !.poly_Bz = BindTop(@, v),
                     !.poly_Cz = BindTop(@, v)]
           \/ /\ prover' = SqueezeFailed(
                   [prover EXCEPT !.transcript = Absorb(@, "p", round_poly)], 172)
              /\ UNCHANGED oracle
    /\ UNCHANGED <<sp_pc, circuit, num_steps, key, w_segments, witness_commitments,
                   proof, corruption, verifier>>

\* lines 162-182: the claims at the end of the outer sum-check, absorbed
POuterClaims ==
    /\ sp_pc = "prove"
    /\ prover.pc = "outer"
    /\ Len(prover.r_x) = NumRoundsX(key)
    /\ LET claims == <<prover.poly_tau[1], prover.poly_Az[1], prover.poly_Bz[1],
                       prover.poly_Cz[1]>>
       IN  prover' = [prover EXCEPT
             !.pc = "r",
             !.claims_outer = claims,
             !.poly_tau = <<>>, !.poly_Az = <<>>, !.poly_Bz = <<>>, !.poly_Cz = <<>>,
             !.transcript = Absorb(@, "claims_outer",
                                   <<claims[2], claims[3], claims[4]>>)]
    /\ UNCHANGED <<sp_pc, circuit, num_steps, key, w_segments, witness_commitments,
                   oracle, proof, corruption, verifier>>

RECURSIVE ColSum(_, _, _, _)
\* small_M_evals[col]: sum of eq_rx_con[row] * val over the entries (row, col, val)
\* of small_M from the i-th on
ColSum(M, i, col, eq_rx_con) ==
    IF i > Len(M) THEN 0
    ELSE FAdd(IF M[i][2] # col THEN 0 ELSE FMul(eq_rx_con[M[i][1] + 1], M[i][3]),
              ColSum(M, i + 1, col, eq_rx_con))

\* compute_eval_table_sparse_single (lines 206-212)
SmallMEvals(M, eq_rx_con, k) ==
    [c \in 1 .. (k.shape_full.num_vars + 1) |-> ColSum(M, 1, c - 1, eq_rx_con)]

\* compute_eval_constant_column (lines 239-248)
EvalConstantColumn(M, eq_rx_con, eq_rx_ts, k) ==
    FMul(ColSum(M, 1, k.shape_single_step.num_vars, eq_rx_con),
         SumSeq(eq_rx_ts, k.num_steps))

\* poly_ABC (lines 192-264): the table of A(r_x, y) + r B(r_x, y) + r^2 C(r_x, y)
PolyABC(k, r_x, r) ==
    LET num_steps_bits == TrailingZeros(k.num_steps)
        rx_con == SubSeq(r_x, 1, Len(r_x) - num_steps_bits)
        rx_ts == SubSeq(r_x, Len(r_x) - num_steps_bits + 1, Len(r_x))
        eq_rx_con == EqEvals(rx_con)
        eq_rx_ts == EqEvals(rx_ts)
        n_steps == k.num_steps
        S == k.shape_single_step
        small_A_evals == SmallMEvals(S.A, eq_rx_con, k)
        small_B_evals == SmallMEvals(S.B, eq_rx_con, k)
        small_C_evals == SmallMEvals(S.C, eq_rx_con, k)
        r_sq == FMul(r, r)
        small_RLC_evals ==
            [i \in 1 .. Len(small_A_evals) |->
                FAdd(FAdd(small_A_evals[i], FMul(small_B_evals[i], r)),
                     FMul(small_C_evals[i], r_sq))]
        constant_terms ==
            FAdd(FAdd(EvalConstantColumn(S.A, eq_rx_con, eq_rx_ts, k),
                      FMul(r, EvalConstantColumn(S.B, eq_rx_con, eq_rx_ts, k))),
                 FMul(r_sq, EvalConstantColumn(S.C, eq_rx_con, eq_rx_ts, k)))
    IN  [y \in 1 .. (2 * k.num_vars_total) |->
            IF y <= k.num_vars_total
            THEN FMul(eq_rx_ts[((y - 1) % n_steps) + 1],
                      small_RLC_evals[((y - 1) \div n_steps) + 1])
            ELSE IF y = k.num_vars_total + 1 THEN constant_terms
            ELSE 0]

\* the second table of prove_quad_unrolled (line 276): the witness, then the
\* constant 1 and the argument given as X, padded with zeros
UnrolledZ(w, X, k) == w \o Resize(<<1>> \o X, k.num_vars_total)

\* lines 185-275: squeeze r, the joint claim and the tables of the inner sum-check
PInnerTables ==
    /\ sp_pc = "prove"
    /\ prover.pc = "r"
    /\ LET h == SqueezeOp(prover.transcript, "r")
       IN  \/ \E v \in ChallengeVals :
                /\ Squeezed(h, v)
                /\ prover' = [prover EXCEPT
                     !.pc = "inner",
                     !.transcript = h,
                     !.r = v,
                     !.claim = FAdd(FAdd(prover.claims_outer[2],
                                         FMul(v, prover.claims_outer[3])),
                                    FMul(FMul(v, v), prover.claims_outer[4])),
                     !.poly_ABC = PolyABC(key, prover.r_x, v),
                     !.poly_Z = UnrolledZ(prover.witness, witness_commitments, key)]
           \/ /\ prover' = SqueezeFailed(prover, 185)
              /\ UNCHANGED oracle
    /\ UNCHANGED <<sp_pc, circuit, num_steps, key, w_segments, witness_commitments,
                   proof, corruption, verifier>>

\* one round of prove_quad_unrolled (line 276)
PInnerRound ==
    /\ sp_pc = "prove"
    /\ prover.pc = "inner"
    /\ Len(prover.r_y) < NumRoundsY(key)
    /\ LET round_poly == QuadRoundPoly(prover.poly_ABC, prover.poly_Z)
           h == SqueezeOp(Absorb(prover.transcript, "p", round_poly), "c")
       IN  \/ \E v \in ChallengeVals :
                /\ Squeezed(h, v)
                /\ prover' = [prover EXCEPT
                     !.transcript = h,
                     !.sc_proof_inner = Append(@, round_poly),
                     !.r_y = Append(@, v),
                     !.poly_ABC = BindTop(@, v),
                     !.poly_Z = BindTop(@, v)]
           \/ /\ prover' = SqueezeFailed(
                   [prover EXCEPT !.transcript = Absorb(@, "p", round_poly)], 284)
              /\ UNCHANGED oracle
    /\ UNCHANGED <<sp_pc, circuit, num_steps, key, w_segments, witness_commitments,
                   proof, corruption, verifier>>

\* lines 290-304: the segment evaluations, the squeeze of c and todo!(): the
\* answer to the squeeze is dropped by the panic; a failed squeeze returns Err(e)
PBatch ==
    /\ sp_pc = "prove"
    /\ prover.pc = "inner"
    /\ Len(prover.r_y) = NumRoundsY(key)
    /\ LET n_prefix == NPrefix(key)
           r_y_point == SubSeq(prover.r_y, n_prefix + 1, Len(prover.r_y))
           evaluated == [prover EXCEPT
                           !.poly_ABC = <<>>, !.poly_Z = <<>>,
                           !.witness_evals = [i \in 1 .. Len(w_segments) |->
                                                 Evaluate(w_segments[i], r_y_point)]]
       IN  \/ prover' = [evaluated EXCEPT
                  !.pc = "done",
                  !.transcript = SqueezeOp(@, "c"),
                  !.result = "panic",
                  !.line = 304]
           \/ prover' = SqueezeFailed(evaluated, 303)
    /\ UNCHANGED <<sp_pc, circuit, num_steps, key, w_segments, witness_commitments,
                   oracle, proof, corruption, verifier>>

PNext == PStart \/ PSqueezeTau \/ POuterTables \/ POuterRound \/ POuterClaims
         \/ PInnerTables \/ PInnerRound \/ PBatch

(***************************************************************************)
(* verify_precommitted                                                     *)
(***************************************************************************)
\* struct UniformSpartanProof (lines 27-35): a value of the type
UniformSpartanProof(comm_W, outer, claims, inner, eval_W, eval_arg) ==
    [witness_segment_commitments |-> comm_W,
     outer_sumcheck_proof |-> outer,
     outer_sumcheck_claims |-> claims,
     inner_sumcheck_proof |-> inner,
     eval_W |-> eval_W,
     eval_arg |-> eval_arg]

\* the values of eval_arg in a proof; verify_precommitted does not read it
EvalArgChoices == {<<>>}

\* The proofs verify_precommitted is called on.  prove_precommitted returns
\* none: it stops at todo!() (line 304) and its return is a comment.  A caller
\* builds self field by field; the calls considered are on the values whose
\* fields are the commitments given to the prover and the sum-check proofs,
\* claims and segment evaluations the prover had computed when it stopped.
ProofInputs ==
    {UniformSpartanProof(witness_commitments, prover.sc_proof_outer,
                         <<prover.claims_outer[2], prover.claims_outer[3],
                           prover.claims_outer[4]>>,
                         prover.sc_proof_inner, prover.witness_evals, a) :
        a \in EvalArgChoices}

\* p with entry i of outer_sumcheck_claims replaced by v
WithOuterClaim(p, i, v) == [p EXCEPT !.outer_sumcheck_claims[i] = v]

\* key.digest()
Digest(k) == k.vk_digest

VStartLocals ==
    [pc |-> "start", transcript |-> <<>>, tau |-> <<>>, r_x |-> <<>>, claim |-> 0,
     claim_outer_final |-> "none", r |-> 0, r_y |-> <<>>,
     claim_inner_final |-> "none", result |-> "none", line |-> 0]

\* the values of io in a call
IoChoices == {<<>>, <<1>>}

\* the first call of verify_precommitted, on a proof of ProofInputs, with an io
\* that is not empty: assert_eq!(io.len(), 0) (line 345) fails
VCallAssertIo ==
    /\ sp_pc = "prove"
    /\ prover.pc = "done"
    /\ prover.line = 304
    /\ sp_pc' = "verify"
    /\ proof' \in ProofInputs
    /\ corruption' = [entry |-> 0, original |-> 0]
    /\ \E io \in IoChoices : Len(io) # 0
    /\ verifier' = [VStartLocals EXCEPT !.pc = "done", !.result = "panic",
                                        !.line = 345]
    /\ UNCHANGED <<circuit, num_steps, key, w_segments, witness_commitments, oracle,
                   prover>>

\* the absorbs of the call in the other order
VCalledUFirst(p) ==
    [VStartLocals EXCEPT
       !.pc = "outer",
       !.transcript = Absorb(Absorb(<<>>, "U", p.witness_segment_commitments),
                             "vk", Digest(key))]

\* lines 338-357 of a call on the proof p with an empty io: absorb vk and U; the
\* claim of the outer sum-check is zero (line 366)
VCalled(p) ==
    [VStartLocals EXCEPT
       !.pc = "outer",
       !.transcript = Absorb(Absorb(<<>>, "vk", Digest(key)),
                             "U", p.witness_segment_commitments)]

\* the first call of verify_precommitted, on a proof of ProofInputs, io empty
VCall ==
    /\ sp_pc = "prove"
    /\ prover.pc = "done"
    /\ prover.line = 304
    /\ sp_pc' = "verify"
    /\ proof' \in ProofInputs
    /\ corruption' = [entry |-> 0, original |-> 0]
    /\ \E io \in IoChoices : Len(io) = 0
    /\ verifier' = VCalled(proof')
    /\ UNCHANGED <<circuit, num_steps, key, w_segments, witness_commitments, oracle,
                   prover>>

\* a second call, io empty, after a call on a proof of ProofInputs that went past
\* the outer final-claim check: on a copy of the proof with one entry of
\* outer_sumcheck_claims replaced by a different value, the entry plus or
\* minus one
VCallCorrupted ==
    /\ sp_pc = "verify"
    /\ verifier.pc = "done"
    /\ verifier.line \in {397, 491, 500}
    /\ corruption.entry = 0
    /\ \E i \in 1 .. 3 : \E d \in {1, Modulus - 1} :
          /\ proof' = WithOuterClaim(proof, i, FAdd(proof.outer_sumcheck_claims[i], d))
          /\ corruption' = [entry |-> i, original |-> proof.outer_sumcheck_claims[i]]
    /\ verifier' = VCalled(proof')
    /\ UNCHANGED <<sp_pc, circuit, num_steps, key, w_segments, witness_commitments,
                   oracle, prover>>

\* lines 360-362: one squeeze of tau
VSqueezeTau ==
    /\ sp_pc = "verify"
    /\ verifier.pc = "outer"
    /\ Len(verifier.tau) < NumRoundsX(key)
    /\ LET h == SqueezeOp(verifier.transcript, "t")
       IN  \/ \E v \in ChallengeVals :
                /\ Squeezed(h, v)
                /\ verifier' = [verifier EXCEPT !.transcript = h, !.tau = Append(@, v)]
           \/ /\ verifier' = SqueezeFailed(verifier, 362)
              /\ UNCHANGED oracle
    /\ UNCHANGED <<sp_pc, circuit, num_steps, key, w_segments, witness_commitments,
                   prover, proof, corruption>>

\* SumcheckInstanceProof::verify, the check of a round: the polynomial has the
\* degree of the bound and its values at 0 and 1 add up to the claim
RoundAccepts(round_poly, claim, degree_bound) ==
    /\ Len(round_poly) = degree_bound + 1
    /\ FAdd(round_poly[1], round_poly[2]) = claim

\* a round of the outer sum-check whose check fails
VOuterReject ==
    /\ sp_pc = "verify"
    /\ verifier.pc = "outer"
    /\ Len(verifier.tau) = NumRoundsX(key)
    /\ Len(verifier.r_x) < NumRoundsX(key)
    /\ ~RoundAccepts(proof.outer_sumcheck_proof[Len(verifier.r_x) + 1],
                     verifier.claim, 3)
    /\ verifier' = [verifier EXCEPT !.pc = "done", !.result = "InvalidSumcheckProof",
                                    !.line = 366]
    /\ UNCHANGED <<sp_pc, circuit, num_steps, key, w_segments, witness_commitments,
                   oracle, prover, proof, corruption>>

\* a round of the outer sum-check: absorb the polynomial, squeeze the challenge,
\* the next claim is the polynomial at the challenge
VOuterRound ==
    /\ sp_pc = "verify"
    /\ verifier.pc = "outer"
    /\ Len(verifier.tau) = NumRoundsX(key)
    /\ Len(verifier.r_x) < NumRoundsX(key)
    /\ LET round_poly == proof.outer_sumcheck_proof[Len(verifier.r_x) + 1]
           h == SqueezeOp(Absorb(verifier.transcript, "p", round_poly), "c")
       IN  /\ RoundAccepts(round_poly, verifier.claim, 3)
           /\ \/ \E v \in ChallengeVals :
                   /\ Squeezed(h, v)
                   /\ verifier' = [verifier EXCEPT
                        !.transcript = h,
                        !.r_x = Append(@, v),
                        !.claim = EvalRoundPoly(round_poly, v)]
              \/ /\ verifier' = SqueezeFailed(
                      [verifier EXCEPT !.transcript = Absorb(@, "p", round_poly)], 366)
                 /\ UNCHANGED oracle
    /\ UNCHANGED <<sp_pc, circuit, num_steps, key, w_segments, witness_commitments,
                   prover, proof, corruption>>

RECURSIVE EqEvaluate(_, _, _)
\* EqPolynomial::new(tau).evaluate(r), the factors from the i-th on
EqEvaluate(t, r, i) ==
    IF i > Len(t) THEN 1
    ELSE FMul(FAdd(FMul(t[i], r[i]), FMul(FSub(1, t[i]), FSub(1, r[i]))),
              EqEvaluate(t, r, i + 1))

\* the expected claim without claim_Cz
ClaimOuterFinalWithoutCz(t, r_x, claims) ==
    FMul(EqEvaluate(t, r_x, 1), FMul(claims[1], claims[2]))

\* line 371: claim_outer_final_expected
ClaimOuterFinalExpected(t, r_x, claims) ==
    FMul(EqEvaluate(t, r_x, 1), FSub(FMul(claims[1], claims[2]), claims[3]))

\* the comparison made after the absorb of claims_outer
VOuterCheckFailAbsorbed ==
    /\ sp_pc = "verify"
    /\ verifier.pc = "outer"
    /\ Len(verifier.tau) = NumRoundsX(key)
    /\ Len(verifier.r_x) = NumRoundsX(key)
    /\ verifier.claim # ClaimOuterFinalExpected(verifier.tau, verifier.r_x,
                                                proof.outer_sumcheck_claims)
    /\ verifier' = [verifier EXCEPT
         !.pc = "done", !.result = "InvalidSumcheckProof",
         !.claim_outer_final = verifier.claim,
         !.transcript = Absorb(@, "claims_outer", proof.outer_sumcheck_claims),
         !.line = 373]
    /\ UNCHANGED <<sp_pc, circuit, num_steps, key, w_segments, witness_commitments,
                   oracle, prover, proof, corruption>>

\* lines 369-374: the outer final claim differs from the expected one
VOuterCheckFail ==
    /\ sp_pc = "verify"
    /\ verifier.pc = "outer"
    /\ Len(verifier.tau) = NumRoundsX(key)
    /\ Len(verifier.r_x) = NumRoundsX(key)
    /\ verifier.claim # ClaimOuterFinalExpected(verifier.tau, verifier.r_x,
                                                proof.outer_sumcheck_claims)
    /\ verifier' = [verifier EXCEPT !.pc = "done", !.result = "InvalidSumcheckProof",
                                    !.claim_outer_final = verifier.claim,
                                    !.line = 373]
    /\ UNCHANGED <<sp_pc, circuit, num_steps, key, w_segments, witness_commitments,
                   oracle, prover, proof, corruption>>

\* lines 369-384: the outer final claim is the expected one; absorb claims_outer
VOuterCheckPass ==
    /\ sp_pc = "verify"
    /\ verifier.pc = "outer"
    /\ Len(verifier.tau) = NumRoundsX(key)
    /\ Len(verifier.r_x) = NumRoundsX(key)
    /\ verifier.claim = ClaimOuterFinalExpected(verifier.tau, verifier.r_x,
                                                proof.outer_sumcheck_claims)
    /\ verifier' = [verifier EXCEPT
         !.pc = "r",
         !.claim_outer_final = verifier.claim,
         !.transcript = Absorb(@, "claims_outer", proof.outer_sumcheck_claims)]
    /\ UNCHANGED <<sp_pc, circuit, num_steps, key, w_segments, witness_commitments,
                   oracle, prover, proof, corruption>>

\* lines 387-392: squeeze r, the joint claim, the call of
\* inner_sumcheck_proof.verify(claim_inner_joint, num_rounds_y, 2, ..)
VSqueezeR ==
    /\ sp_pc = "verify"
    /\ verifier.pc = "r"
    /\ LET h == SqueezeOp(verifier.transcript, "r")
       IN  \/ \E v \in ChallengeVals :
                /\ Squeezed(h, v)
                /\ verifier' = [verifier EXCEPT
                     !.pc = "inner",
                     !.transcript = h,
                     !.r = v,
                     !.claim = FAdd(FAdd(proof.outer_sumcheck_claims[1],
                                         FMul(v, proof.outer_sumcheck_claims[2])),
                                    FMul(FMul(v, v), proof.outer_sumcheck_claims[3]))]
           \/ /\ verifier' = SqueezeFailed(verifier, 387)
              /\ UNCHANGED oracle
    /\ UNCHANGED <<sp_pc, circuit, num_steps, key, w_segments, witness_commitments,
                   prover, proof, corruption>>

\* a round of the inner sum-check whose check fails
VInnerReject ==
    /\ sp_pc = "verify"
    /\ verifier.pc = "inner"
    /\ Len(verifier.r_y) < NumRoundsY(key)
    /\ ~RoundAccepts(proof.inner_sumcheck_proof[Len(verifier.r_y) + 1],
                     verifier.claim, 2)
    /\ verifier' = [verifier EXCEPT !.pc = "done", !.result = "InvalidSumcheckProof",
                                    !.line = 397]
    /\ UNCHANGED <<sp_pc, circuit, num_steps, key, w_segments, witness_commitments,
                   oracle, prover, proof, corruption>>

\* a round of the inner sum-check
VInnerRound ==
    /\ sp_pc = "verify"
    /\ verifier.pc = "inner"
    /\ Len(verifier.r_y) < NumRoundsY(key)
    /\ LET round_poly == proof.inner_sumcheck_proof[Len(verifier.r_y) + 1]
           h == SqueezeOp(Absorb(verifier.transcript, "p", round_poly), "c")
       IN  /\ RoundAccepts(round_poly, verifier.claim, 2)
           /\ \/ \E v \in ChallengeVals :
                   /\ Squeezed(h, v)
                   /\ verifier' = [verifier EXCEPT
                        !.transcript = h,
                        !.r_y = Append(@, v),
                        !.claim = EvalRoundPoly(round_poly, v)]
              \/ /\ verifier' = SqueezeFailed(
                      [verifier EXCEPT !.transcript = Absorb(@, "p", round_poly)], 397)
                 /\ UNCHANGED oracle
    /\ UNCHANGED <<sp_pc, circuit, num_steps, key, w_segments, witness_commitments,
                   prover, proof, corruption>>

RECURSIVE SparseEvaluate(_, _, _)
\* SparsePolynomial::evaluate: sum of val * eq(r, idx) over the entries (idx, val)
\* from the i-th on
SparseEvaluate(entries, r, i) ==
    IF i > Len(entries) THEN 0
    ELSE FAdd(FMul(entries[i][2], EqTerm(r, entries[i][1], Len(r))),
              SparseEvaluate(entries, r, i + 1))

\* lines 406-417: eval_X
EvalX(p, r_y) ==
    LET poly_X == <<(<<0, 1>>)>> \o
                  [i \in 1 .. Len(p.witness_segment_commitments) |->
                      <<i, p.witness_segment_commitments[i]>>]
    IN  SparseEvaluate(poly_X, SubSeq(r_y, 2, Len(r_y)), 1)

RECURSIVE Bits(_)
\* the binary digits of i, most significant first
Bits(i) == IF i < 2 THEN <<i>> ELSE Append(Bits(i \div 2), i % 2)

\* format!("{:0width$b}", i, width): the digits of i, padded with zeros on the
\* left to at least width digits
BinFormat(i, width) ==
    LET b == Bits(i)
    IN  IF Len(b) >= width THEN b
        ELSE [j \in 1 .. width |->
                IF j <= width - Len(b) THEN 0 ELSE b[j - (width - Len(b))]]

RECURSIVE SelectorProduct(_, _, _)
\* lines 425-431: the fold over the digits of bin from the j-th on
SelectorProduct(bin, r_y_witness, j) ==
    IF j > Len(bin) THEN 1
    ELSE FMul(IF bin[j] = 0 THEN FSub(1, r_y_witness[j]) ELSE r_y_witness[j],
              SelectorProduct(bin, r_y_witness, j + 1))

\* lines 420-435: eval_W
EvalW(p, r_y, n_prefix) ==
    LET r_y_witness == SubSeq(r_y, 2, n_prefix)
        N_SEGMENTS == Len(p.witness_segment_commitments)
    IN  SumSeq([i \in 1 .. N_SEGMENTS |->
                   FMul(SelectorProduct(BinFormat(i - 1, n_prefix - 1), r_y_witness, 1),
                        p.eval_W[i])],
               N_SEGMENTS)

\* line 437: eval_Z
EvalZ(p, r_y, k) ==
    FAdd(FMul(FSub(1, r_y[1]), EvalW(p, r_y, NPrefix(k))), FMul(r_y[1], EvalX(p, r_y)))

RECURSIVE StepSumNoConstant(_, _, _, _, _)
\* the sum over the steps with the constant column expanded like the others
StepSumNoConstant(e, T_x, T_y, k, j) ==
    IF j >= k.num_steps THEN 0
    ELSE LET row == e[1] * k.num_steps + j
             col == e[2] * k.num_steps + j
         IN  FAdd(FMul(FMul(e[3], T_x[row + 1]), T_y[col + 1]),
                  StepSumNoConstant(e, T_x, T_y, k, j + 1))

RECURSIVE StepSum(_, _, _, _, _)
\* lines 449-461: the sum over the steps from j on of val * T_x[row] * T_y[col]
StepSum(e, T_x, T_y, k, j) ==
    IF j >= k.num_steps THEN 0
    ELSE LET row == e[1] * k.num_steps + j
             col == IF e[2] # k.shape_single_step.num_vars
                    THEN e[2] * k.num_steps + j
                    ELSE k.num_vars_total
         IN  FAdd(FMul(FMul(e[3], T_x[row + 1]), T_y[col + 1]),
                  StepSum(e, T_x, T_y, k, j + 1))

RECURSIVE EvaluateWithTableUniform(_, _, _, _, _)
\* lines 443-464: the sum over the entries of M from the i-th on
EvaluateWithTableUniform(M, T_x, T_y, k, i) ==
    IF i > Len(M) THEN 0
    ELSE FAdd(StepSum(M[i], T_x, T_y, k, 0),
              EvaluateWithTableUniform(M, T_x, T_y, k, i + 1))

\* lines 441-486: multi_evaluate_uniform of A, B, C at (r_x, r_y)
MultiEvaluateUniform(k, r_x, r_y) ==
    LET T_x == EqEvals(r_x)
        T_y == EqEvals(r_y)
    IN  <<EvaluateWithTableUniform(k.shape_single_step.A, T_x, T_y, k, 1),
          EvaluateWithTableUniform(k.shape_single_step.B, T_x, T_y, k, 1),
          EvaluateWithTableUniform(k.shape_single_step.C, T_x, T_y, k, 1)>>

\* the expected claim without the evaluation of C
ClaimInnerFinalWithoutC(k, p, r_x, r, r_y) ==
    LET evals == MultiEvaluateUniform(k, r_x, r_y)
    IN  FMul(FAdd(evals[1], FMul(r, evals[2])), EvalZ(p, r_y, k))

\* line 488: claim_inner_final_expected
ClaimInnerFinalExpected(k, p, r_x, r, r_y) ==
    LET evals == MultiEvaluateUniform(k, r_x, r_y)
    IN  FMul(FAdd(FAdd(evals[1], FMul(r, evals[2])), FMul(FMul(r, r), evals[3])),
             EvalZ(p, r_y, k))

\* lines 401-492: the inner final claim differs from the expected one
VInnerCheckFail ==
    /\ sp_pc = "verify"
    /\ verifier.pc = "inner"
    /\ Len(verifier.r_y) = NumRoundsY(key)
    /\ verifier.claim # ClaimInnerFinalExpected(key, proof, verifier.r_x, verifier.r,
                                                verifier.r_y)
    /\ verifier' = [verifier EXCEPT !.pc = "done", !.result = "InvalidSumcheckProof",
                                    !.claim_inner_final = verifier.claim,
                                    !.line = 491]
    /\ UNCHANGED <<sp_pc, circuit, num_steps, key, w_segments, witness_commitments,
                   oracle, prover, proof, corruption>>

\* lines 401-500: the inner final claim is the expected one; the squeeze of c
\* and todo!(): the answer to the squeeze is dropped by the panic; a failed
\* squeeze returns Err(e)
VBatch ==
    /\ sp_pc = "verify"
    /\ verifier.pc = "inner"
    /\ Len(verifier.r_y) = NumRoundsY(key)
    /\ verifier.claim = ClaimInnerFinalExpected(key, proof, verifier.r_x, verifier.r,
                                                verifier.r_y)
    /\ \/ verifier' = [verifier EXCEPT
               !.pc = "done",
               !.claim_inner_final = verifier.claim,
               !.transcript = SqueezeOp(@, "c"),
               !.result = "panic",
               !.line = 500]
       \/ verifier' = SqueezeFailed([verifier EXCEPT
                                        !.claim_inner_final = verifier.claim], 499)
    /\ UNCHANGED <<sp_pc, circuit, num_steps, key, w_segments, witness_commitments,
                   oracle, prover, proof, corruption>>

VNext == VCallAssertIo \/ VCall \/ VCallCorrupted \/ VSqueezeTau \/ VOuterReject
         \/ VOuterRound \/ VOuterCheckFail \/ VOuterCheckPass \/ VSqueezeR
         \/ VInnerReject \/ VInnerRound \/ VInnerCheckFail \/ VBatch

\* setup_precommitted (lines 63-89)
Setup ==
    /\ sp_pc = "setup"
    /\ key' = SetupKey(circuit, num_steps)
    /\ sp_pc' = "prove"
    /\ prover' = PStartLocals
    /\ UNCHANGED <<circuit, num_steps, w_segments, witness_commitments, oracle, proof,
                   corruption, verifier>>

SPIdle ==
    /\ sp_pc = "idle"
    /\ circuit = "none"
    /\ num_steps = 0
    /\ key = "none"
    /\ w_segments = <<>>
    /\ witness_commitments = <<>>
    /\ oracle = <<>>
    /\ prover = "none"
    /\ proof = "none"
    /\ corruption = "none"
    /\ verifier = "none"

SPInit ==
    /\ sp_pc = "setup"
    /\ circuit \in Circuits
    /\ num_steps \in StepCounts
    /\ key = "none"
    /\ w_segments \in WitnessChoices
    /\ witness_commitments \in CommitmentChoices(Len(w_segments))
    /\ oracle = <<>>
    /\ prover = "none"
    /\ proof = "none"
    /\ corruption = "none"
    /\ verifier = "none"

SPNext == Setup \/ PNext \/ VNext

(***************************************************************************)
(* ZeromorphSRS::trim (zeromorph.rs:56-82)                                 *)
(***************************************************************************)
\* the values of a usize
UsizeModulus == Pow2(UsizeBits)

\* the builds of the crate: with overflow checks (debug) or without (release)
Builds == {"debug", "release"}

\* an SRS of L powers: the power tau^i of a group stands as its exponent i
SrsOfLen(L) == [g1_powers |-> [i \in 1 .. L |-> i - 1],
                g2_powers |-> [i \in 1 .. L |-> i - 1]]

\* slice[a..b] of a Rust slice (0-based, b excluded)
Slice(s, a, b) == SubSeq(s, a + 1, b)

\* a call that has not returned
TMNoResult == [kind |-> "none", error |-> <<>>, keys |-> <<>>]

\* line 60: offset = g1_powers.len() - max_degree; the subtraction overflows
\* when max_degree is the larger: a panic with overflow checks, a wrap without
TMOffset ==
    /\ tm_pc = "start"
    /\ LET len == Len(srs.g1_powers)
       IN  IF len < tm_max_degree /\ build = "debug"
           THEN /\ tm_pc' = "done"
                /\ tm_result' = [TMNoResult EXCEPT !.kind = "panic"]
                /\ UNCHANGED tm_offset
           ELSE /\ tm_pc' = "check"
                /\ tm_offset' = (len - tm_max_degree + UsizeModulus) % UsizeModulus
                /\ UNCHANGED tm_result
    /\ UNCHANGED <<srs, tm_max_degree, build>>

\* lines 61-81: the comparison of the length with max_degree + offset, then
\* Err(KeyLengthError(max_degree, len)) or the keys cut from the powers
TMCheck ==
    /\ tm_pc = "check"
    /\ LET len == Len(srs.g1_powers)
           sum == tm_max_degree + tm_offset
       IN  IF sum >= UsizeModulus /\ build = "debug"
           THEN tm_result' = [TMNoResult EXCEPT !.kind = "panic"]
           ELSE IF len >= sum % UsizeModulus
           THEN tm_result' = [TMNoResult EXCEPT
                                !.kind = "Err",
                                !.error = <<"KeyLengthError", tm_max_degree, len>>]
           ELSE LET offset == (len - tm_max_degree + UsizeModulus) % UsizeModulus
                IN  IF offset + tm_max_degree > len \/ offset >= Len(srs.g2_powers)
                       \/ Len(srs.g2_powers) < 2
                    THEN tm_result' = [TMNoResult EXCEPT !.kind = "panic"]
                    ELSE tm_result' =
                           [TMNoResult EXCEPT
                              !.kind = "Ok",
                              !.keys =
                                 <<[g1_powers |-> srs.g1_powers,
                                    offset_g1_powers |->
                                       Slice(srs.g1_powers, offset,
                                             offset + tm_max_degree)],
                                   [g1 |-> srs.g1_powers[1],
                                    g2 |-> srs.g2_powers[1],
                                    tau_2 |-> srs.g2_powers[2],
                                    tau_N_max_sub_2_N |-> srs.g2_powers[offset + 1]]>>]
    /\ tm_pc' = "done"
    /\ UNCHANGED <<srs, tm_max_degree, build, tm_offset>>

TMNext == TMOffset \/ TMCheck

TMIdle ==
    /\ tm_pc = "idle"
    /\ srs = "none"
    /\ tm_max_degree = 0
    /\ build = "none"
    /\ tm_offset = 0
    /\ tm_result = TMNoResult

TMInit ==
    /\ tm_pc = "start"
    /\ srs \in {SrsOfLen(L) : L \in 1 .. MaxSrsLen}
    /\ tm_max_degree \in 0 .. MaxTrimDegree
    /\ build \in Builds
    /\ tm_offset = 0
    /\ tm_result = TMNoResult

(***************************************************************************)
(* poly_ABC and multi_evaluate_uniform at given points                     *)
(***************************************************************************)
\* a single-step shape of two constraints over three variables, column 3 the
\* constant column
ShapeThree ==
    [num_cons |-> 2, num_vars |-> 3,
     A |-> << <<0, 0, 1>>, <<1, 2, 1>>, <<1, 3, 1>> >>,
     B |-> << <<0, 1, 1>>, <<1, 3, 1>> >>,
     C |-> << <<0, 2, 1>>, <<1, 0, 2>> >>]

EvalShapes == {ShapeStep, ShapeThree}
EvalStepCounts == {1, 2}

\* lines 192-264 of prove_precommitted: the table RLC_evals at r_x and r
EVPolyABC ==
    /\ ev_pc = "start"
    /\ ev_RLC' = PolyABC(ev_key, ev_r_x, ev_r)
    /\ ev_pc' = "table"
    /\ UNCHANGED <<ev_key, ev_r_x, ev_r, ev_r_y, ev_evals>>

\* lines 441-486 of verify_precommitted: evals at (r_x, r_y)
EVMultiEvaluate ==
    /\ ev_pc = "table"
    /\ ev_evals' = MultiEvaluateUniform(ev_key, ev_r_x, ev_r_y)
    /\ ev_pc' = "done"
    /\ UNCHANGED <<ev_key, ev_r_x, ev_r, ev_r_y, ev_RLC>>

EVNext == EVPolyABC \/ EVMultiEvaluate

EVIdle ==
    /\ ev_pc = "idle"
    /\ ev_key = "none"
    /\ ev_r_x = <<>>
    /\ ev_r = 0
    /\ ev_r_y = <<>>
    /\ ev_RLC = <<>>
    /\ ev_evals = <<>>

EVInit ==
    /\ ev_pc = "start"
    /\ ev_key \in {SetupKey(s, N) : s \in EvalShapes, N \in EvalStepCounts}
    /\ ev_r_x \in SeqsOf(ChallengeVals, NumRoundsX(ev_key))
    /\ ev_r \in ChallengeVals
    /\ ev_r_y \in SeqsOf(ChallengeVals, NumRoundsY(ev_key))
    /\ ev_RLC = <<>>
    /\ ev_evals = <<>>

(***************************************************************************)
(* compute_multilinear_quotients and compute_batched_lifted_degree_quotient *)
(* with the feature multicore: each for_each visits its elements in any    *)
(* order and returns when all are visited.                                 *)
(***************************************************************************)
ParVals == 0 .. (IF MaxParValue < Modulus THEN MaxParValue ELSE Modulus - 1)

\* tables of 2^n values
ParTables(n) ==
    {[i \in 1 .. Pow2(n) |-> (a * i * i + b) % Modulus] :
        a \in ParVals \ {0}, b \in {0, 1}}

\* a for_each that returns whatever is left to visit
ForEachDoneEarly(todo) == TRUE

\* the for_each has visited every element: it returns
ForEachDone(todo) == todo = {}

\* *q = *g_hi - *g_lo for element j
QuotientElem(tbl, half, j) == FSub(tbl[half + j], tbl[j])

\* *g_lo += (*g_hi - g_lo) * x_i for element j
FoldElem(tbl, half, j, x) == FAdd(tbl[j], FMul(FSub(tbl[half + j], tbl[j]), x))

\* *q_hat += scalar * q for one element
AccumulateElem(qh, sc, q) == FAdd(qh, FMul(sc, q))

\* g_lo.len() in iteration i of the map
ParHalf == Pow2(Len(par_u) - 1 - par_i)

\* the start of iteration i of the map closure: split_at_mut, the vector quotient
PARBegin ==
    /\ par_pc = "map"
    /\ par_i < Len(par_u)
    /\ par_quotient' = [j \in 1 .. ParHalf |-> 0]
    /\ par_todo' = 1 .. ParHalf
    /\ par_pc' = "quot"
    /\ UNCHANGED <<par_poly, par_u, par_y, par_g, par_quotients, par_i,
                   par_constant_term, par_q_hat, par_scalar, par_idx,
                   par_reordered>>

\* one element of the first for_each
PARQuotientElem ==
    /\ par_pc = "quot"
    /\ \E j \in par_todo :
          /\ par_quotient' = [par_quotient EXCEPT ![j] = QuotientElem(par_g, ParHalf, j)]
          /\ par_todo' = par_todo \ {j}
          /\ par_reordered' = (par_reordered \/ \E k \in par_todo : k < j)
    /\ UNCHANGED <<par_pc, par_poly, par_u, par_y, par_g, par_quotients, par_i,
                   par_constant_term, par_q_hat, par_scalar, par_idx>>

\* the first for_each returns; the second starts
PARQuotientJoin ==
    /\ par_pc = "quot"
    /\ ForEachDone(par_todo)
    /\ par_todo' = 1 .. ParHalf
    /\ par_pc' = "lo"
    /\ UNCHANGED <<par_poly, par_u, par_y, par_g, par_quotient, par_quotients, par_i,
                   par_constant_term, par_q_hat, par_scalar, par_idx,
                   par_reordered>>

\* one element of the second for_each
PARFoldElem ==
    /\ par_pc = "lo"
    /\ \E j \in par_todo :
          /\ par_g' = [par_g EXCEPT
                         ![j] = FoldElem(par_g, ParHalf, j, par_u[par_i + 1])]
          /\ par_todo' = par_todo \ {j}
          /\ par_reordered' = (par_reordered \/ \E k \in par_todo : k < j)
    /\ UNCHANGED <<par_pc, par_poly, par_u, par_y, par_quotient, par_quotients, par_i,
                   par_constant_term, par_q_hat, par_scalar, par_idx>>

\* the second for_each returns: g.truncate, the quotient is collected
PARFoldJoin ==
    /\ par_pc = "lo"
    /\ ForEachDone(par_todo)
    /\ par_g' = SubSeq(par_g, 1, ParHalf)
    /\ par_quotients' = Append(par_quotients, par_quotient)
    /\ par_quotient' = <<>>
    /\ par_todo' = {}
    /\ par_i' = par_i + 1
    /\ par_pc' = "map"
    /\ UNCHANGED <<par_poly, par_u, par_y, par_constant_term, par_q_hat, par_scalar,
                   par_idx,
                   par_reordered>>

\* quotients.reverse(); (quotients, g[0])
PARReturn ==
    /\ par_pc = "map"
    /\ par_i = Len(par_u)
    /\ par_quotients' = Reverse(par_quotients)
    /\ par_constant_term' = par_g[1]
    /\ par_pc' = "batch"
    /\ UNCHANGED <<par_poly, par_u, par_y, par_g, par_quotient, par_i, par_todo,
                   par_q_hat, par_scalar, par_idx,
                   par_reordered>>

\* the call compute_batched_lifted_degree_quotient(N, quotients, y), N = 2^n
PARBatchEnter ==
    /\ par_pc = "batch"
    /\ par_scalar' = 1
    /\ par_q_hat' = [i \in 1 .. Pow2(Len(par_u)) |-> 0]
    /\ par_idx' = 0
    /\ par_pc' = "fold"
    /\ UNCHANGED <<par_poly, par_u, par_y, par_g, par_quotient, par_quotients, par_i,
                   par_constant_term, par_todo,
                   par_reordered>>

\* the start of step idx of the fold: the zip of q_hat[n - (1 << idx)..] and q
PARAccumulateBegin ==
    /\ par_pc = "fold"
    /\ par_idx < Len(par_quotients)
    /\ par_todo' = 1 .. Min(Pow2(par_idx), Len(par_quotients[par_idx + 1]))
    /\ par_pc' = "acc"
    /\ UNCHANGED <<par_poly, par_u, par_y, par_g, par_quotient, par_quotients, par_i,
                   par_constant_term, par_q_hat, par_scalar, par_idx,
                   par_reordered>>

\* one element of the for_each of the fold
PARAccumulateElem ==
    /\ par_pc = "acc"
    /\ \E j \in par_todo :
          LET at == Pow2(Len(par_u)) - Pow2(par_idx) + j
          IN  /\ par_q_hat' = [par_q_hat EXCEPT
                                 ![at] = AccumulateElem(par_q_hat[at], par_scalar,
                                                        par_quotients[par_idx + 1][j])]
              /\ par_todo' = par_todo \ {j}
              /\ par_reordered' = (par_reordered \/ \E k \in par_todo : k < j)
    /\ UNCHANGED <<par_pc, par_poly, par_u, par_y, par_g, par_quotient, par_quotients,
                   par_i, par_constant_term, par_scalar, par_idx>>

\* the for_each of the fold returns: scalar *= y_challenge
PARAccumulateJoin ==
    /\ par_pc = "acc"
    /\ ForEachDone(par_todo)
    /\ par_scalar' = FMul(par_scalar, par_y)
    /\ par_idx' = par_idx + 1
    /\ par_todo' = {}
    /\ par_pc' = "fold"
    /\ UNCHANGED <<par_poly, par_u, par_y, par_g, par_quotient, par_quotients, par_i,
                   par_constant_term, par_q_hat,
                   par_reordered>>

\* UniPoly::from_coeff(q_hat)
PARBatchReturn ==
    /\ par_pc = "fold"
    /\ par_idx = Len(par_quotients)
    /\ par_pc' = "done"
    /\ UNCHANGED <<par_poly, par_u, par_y, par_g, par_quotient, par_quotients, par_i,
                   par_constant_term, par_todo, par_q_hat, par_scalar, par_idx,
                   par_reordered>>

PARNext == PARBegin \/ PARQuotientElem \/ PARQuotientJoin \/ PARFoldElem \/ PARFoldJoin
           \/ PARReturn \/ PARBatchEnter \/ PARAccumulateBegin \/ PARAccumulateElem
           \/ PARAccumulateJoin \/ PARBatchReturn

PARIdle ==
    /\ par_pc = "idle"
    /\ par_poly = <<>>
    /\ par_u = <<>>
    /\ par_y = 0
    /\ par_g = <<>>
    /\ par_quotient = <<>>
    /\ par_quotients = <<>>
    /\ par_i = 0
    /\ par_constant_term = "none"
    /\ par_todo = {}
    /\ par_q_hat = <<>>
    /\ par_scalar = 0
    /\ par_idx = 0
    /\ par_reordered = FALSE

\* the state after assert_eq!(poly.get_num_vars(), u_challenge.len()) and
\* g = poly.Z.to_vec()
PARInit ==
    /\ par_pc = "map"
    /\ \E n \in 0 .. MaxParVars :
          /\ par_poly \in ParTables(n)
          /\ par_u \in SeqsOf(ParVals, n)
    /\ par_y \in ParVals
    /\ par_g = par_poly
    /\ par_quotient = <<>>
    /\ par_quotients = <<>>
    /\ par_i = 0
    /\ par_constant_term = "none"
    /\ par_todo = {}
    /\ par_q_hat = <<>>
    /\ par_scalar = 0
    /\ par_idx = 0
    /\ par_reordered = FALSE

(***************************************************************************)
(* One call of the closure comb_func_outer on four field values.           *)
(***************************************************************************)
CBCall ==
    /\ cb_pc = "call"
    /\ cb_result' = CombFuncOuter(cb_a, cb_b, cb_c, cb_d)
    /\ cb_pc' = "done"
    /\ UNCHANGED <<cb_a, cb_b, cb_c, cb_d>>

CBNext == CBCall

CBIdle ==
    /\ cb_pc = "idle"
    /\ cb_a = 0
    /\ cb_b = 0
    /\ cb_c = 0
    /\ cb_d = 0
    /\ cb_result = "none"

CBInit ==
    /\ cb_pc = "call"
    /\ cb_a \in Field
    /\ cb_b \in Field
    /\ cb_c \in Field
    /\ cb_d \in Field
    /\ cb_result = "none"

(***************************************************************************)
(* verify_precommitted, lines 399-438: eval_Z from the proof's segment     *)
(* evaluations and commitments, on its own.                                *)
(***************************************************************************)
\* a shape of n variables; the matrices play no part in eval_Z
SelectShape(n) == [num_cons |-> 1, num_vars |-> n, A |-> <<>>, B |-> <<>>, C |-> <<>>]

SelectStepCounts == {1, 2}

\* bin has more digits than r_y_witness has entries: r_y_witness[j] (lines 427,
\* 429) is out of bounds for some segment
SelectorOutOfBounds(p, n_prefix) ==
    \E i \in 1 .. Len(p.witness_segment_commitments) :
        Len(BinFormat(i - 1, n_prefix - 1)) > n_prefix - 1

\* lines 401-438: n_prefix, eval_X, eval_W, eval_Z
SLEvalZ ==
    /\ sl_pc = "call"
    /\ sl_pc' = "done"
    /\ sl_result' =
          IF SelectorOutOfBounds(sl_proof, NPrefix(sl_key))
          THEN [kind |-> "panic", n_prefix |-> NPrefix(sl_key), eval_W |-> 0, eval_X |-> 0,
                eval_Z |-> 0]
          ELSE [kind |-> "value", n_prefix |-> NPrefix(sl_key),
                eval_W |-> EvalW(sl_proof, sl_r_y, NPrefix(sl_key)),
                eval_X |-> EvalX(sl_proof, sl_r_y),
                eval_Z |-> EvalZ(sl_proof, sl_r_y, sl_key)]
    /\ UNCHANGED <<sl_key, sl_proof, sl_r_y>>

SLNext == SLEvalZ

SLIdle ==
    /\ sl_pc = "idle"
    /\ sl_key = "none"
    /\ sl_proof = "none"
    /\ sl_r_y = <<>>
    /\ sl_result = "none"

\* the state at line 399: the key, the proof's commitments and evaluations, one
\* per variable of the single-step shape, and the point r_y of the inner sum-check
SLInit ==
    /\ sl_pc = "call"
    /\ sl_key \in {SetupKey(SelectShape(n), N) :
                     n \in 1 .. MaxSelectVars, N \in SelectStepCounts}
    /\ sl_proof \in [witness_segment_commitments :
                        {[i \in 1 .. sl_key.shape_single_step.num_vars |-> i]},
                     eval_W : SeqsOf(ChallengeVals, sl_key.shape_single_step.num_vars)]
    /\ sl_r_y \in SeqsOf(ChallengeVals, NumRoundsY(sl_key))
    /\ sl_result = "none"

(***************************************************************************)
(* prove_precommitted, lines 112-123: the witness vector, on its own.      *)
(***************************************************************************)
\* the entries of the supplied segments
WitnessEntryVals == {1, 2}

\* the segments of at most len entries
SegmentsUpTo(len) == UNION {SeqsOf(WitnessEntryVals, l) : l \in 0 .. len}

\* lines 114-117: Vec::with_capacity(len * witness_segments[0].len()), then the
\* segments appended in order; witness_segments[0] of no segments panics
WPBatch ==
    /\ wp_pc = "batch"
    /\ IF Len(wp_segments) = 0
       THEN /\ wp_pc' = "done"
            /\ wp_result' = "panic"
            /\ UNCHANGED wp_witness
       ELSE /\ wp_pc' = "resize"
            /\ wp_witness' = Concat(wp_segments, 1)
            /\ UNCHANGED wp_result
    /\ UNCHANGED <<wp_key, wp_segments>>

\* line 122: witness.resize(key.num_vars_total, F::zero())
WPResize ==
    /\ wp_pc = "resize"
    /\ wp_witness' = Resize(wp_witness, wp_key.num_vars_total)
    /\ wp_pc' = "done"
    /\ wp_result' = "witness"
    /\ UNCHANGED <<wp_key, wp_segments>>

WPNext == WPBatch \/ WPResize

WPIdle ==
    /\ wp_pc = "idle"
    /\ wp_key = "none"
    /\ wp_segments = <<>>
    /\ wp_witness = <<>>
    /\ wp_result = "none"

\* the call of prove_precommitted on a key of setup_precommitted and any
\* w_segments
WPInit ==
    /\ wp_pc = "batch"
    /\ wp_key \in {SetupKey(s, N) : s \in EvalShapes, N \in EvalStepCounts}
    /\ \E n \in 0 .. MaxSegments : wp_segments \in SeqsOf(SegmentsUpTo(MaxSegmentLen), n)
    /\ wp_witness = <<>>
    /\ wp_result = "none"

(***************************************************************************)
(* Specifications: one per operation, the other operations idle.           *)
(***************************************************************************)
InitQuotients == MQInit /\ BLIdle /\ SCIdle /\ SPIdle /\ TMIdle /\ EVIdle /\ PARIdle
    /\ CBIdle /\ SLIdle /\ WPIdle
NextQuotients == MQNext /\ UNCHANGED <<blVars, scVars, spVars, tmVars, evVars, parVars,
        cbVars, slVars, wpVars>>
SpecQuotients == InitQuotients /\ [][NextQuotients]_vars

InitBatched == BLInit /\ MQIdle /\ SCIdle /\ SPIdle /\ TMIdle /\ EVIdle /\ PARIdle
    /\ CBIdle /\ SLIdle /\ WPIdle
NextBatched == BLNext /\ UNCHANGED <<mqVars, scVars, spVars, tmVars, evVars, parVars,
        cbVars, slVars, wpVars>>
SpecBatched == InitBatched /\ [][NextBatched]_vars

InitScalars == SCInit /\ MQIdle /\ BLIdle /\ SPIdle /\ TMIdle /\ EVIdle /\ PARIdle
    /\ CBIdle /\ SLIdle /\ WPIdle
NextScalars == SCNext /\ UNCHANGED <<mqVars, blVars, spVars, tmVars, evVars, parVars,
        cbVars, slVars, wpVars>>
SpecScalars == InitScalars /\ [][NextScalars]_vars

InitSpartan == SPInit /\ MQIdle /\ BLIdle /\ SCIdle /\ TMIdle /\ EVIdle /\ PARIdle
    /\ CBIdle /\ SLIdle /\ WPIdle
NextSpartan == SPNext /\ UNCHANGED <<mqVars, blVars, scVars, tmVars, evVars, parVars,
        cbVars, slVars, wpVars>>
SpecSpartan == InitSpartan /\ [][NextSpartan]_vars

InitTrim == TMInit /\ MQIdle /\ BLIdle /\ SCIdle /\ SPIdle /\ EVIdle /\ PARIdle
    /\ CBIdle /\ SLIdle /\ WPIdle
NextTrim == TMNext /\ UNCHANGED <<mqVars, blVars, scVars, spVars, evVars, parVars,
        cbVars, slVars, wpVars>>
SpecTrim == InitTrim /\ [][NextTrim]_vars

InitEvals == EVInit /\ MQIdle /\ BLIdle /\ SCIdle /\ SPIdle /\ TMIdle /\ PARIdle
    /\ CBIdle /\ SLIdle /\ WPIdle
NextEvals == EVNext /\ UNCHANGED <<mqVars, blVars, scVars, spVars, tmVars, parVars,
        cbVars, slVars, wpVars>>
SpecEvals == InitEvals /\ [][NextEvals]_vars

InitParallel == PARInit /\ MQIdle /\ BLIdle /\ SCIdle /\ SPIdle /\ TMIdle /\ EVIdle
    /\ CBIdle /\ SLIdle /\ WPIdle
NextParallel == PARNext /\ UNCHANGED <<mqVars, blVars, scVars, spVars, tmVars, evVars,
        cbVars, slVars, wpVars>>
SpecParallel == InitParallel /\ [][NextParallel]_vars

InitComb == CBInit /\ MQIdle /\ BLIdle /\ SCIdle /\ SPIdle /\ TMIdle /\ EVIdle
    /\ PARIdle /\ SLIdle /\ WPIdle
NextComb == CBNext /\ UNCHANGED <<mqVars, blVars, scVars, spVars, tmVars, evVars,
        parVars, slVars, wpVars>>
SpecComb == InitComb /\ [][NextComb]_vars

InitSelect == SLInit /\ MQIdle /\ BLIdle /\ SCIdle /\ SPIdle /\ TMIdle /\ EVIdle
    /\ PARIdle /\ CBIdle /\ WPIdle
NextSelect == SLNext /\ UNCHANGED <<mqVars, blVars, scVars, spVars, tmVars, evVars,
        parVars, cbVars, wpVars>>
SpecSelect == InitSelect /\ [][NextSelect]_vars

InitPad == WPInit /\ MQIdle /\ BLIdle /\ SCIdle /\ SPIdle /\ TMIdle /\ EVIdle /\ PARIdle
    /\ CBIdle /\ SLIdle
NextPad == WPNext /\ UNCHANGED <<mqVars, blVars, scVars, spVars, tmVars, evVars, parVars,
        cbVars, slVars>>
SpecPad == InitPad /\ [][NextPad]_vars

(***************************************************************************)
(* Claims about compute_multilinear_quotients                              *)
(***************************************************************************)
RECURSIVE QuotientSum(_, _, _, _)
\* sum over k < m of (z[n-1-k] - u[n-1-k]) * q_k(z[n-k..n]), 0-based as in the test
QuotientSum(qs, z, u, m) ==
    IF m = 0 THEN 0
    ELSE LET k == m - 1
             n == Len(z)
         IN  FAdd(QuotientSum(qs, z, u, m - 1),
                  FMul(FSub(z[n - k], u[n - k]),
                       Evaluate(qs[k + 1], SubSeq(z, n - k + 1, n))))

\* C1: once the call has returned (quotients, v), for every point z of length
\* n the identity f(z) - v - sum_k (z[n-1-k] - u[n-1-k]) * q_k(z[n-k..n]) = 0
\* holds, each q_k being evaluated as a multilinear polynomial in k variables.
QuotientIdentity ==
    mq_pc = "done" =>
        \A z \in SeqsOf(PointVals, Len(u_challenge)) :
            FSub(FSub(Evaluate(poly, z), constant_term),
                 QuotientSum(quotients, z, u_challenge, Len(quotients))) = 0

\* a returned call on a polynomial of MaxVars variables with a non-zero
\* quotient and a non-zero point
QuotientIdentityWitness ==
    /\ mq_pc = "done"
    /\ Len(u_challenge) = 2
    /\ \E k \in 1 .. Len(quotients) : \E j \in 1 .. Len(quotients[k]) :
          quotients[k][j] # 0
    /\ \A j \in 1 .. Len(u_challenge) : u_challenge[j] > 1

\* C2: the constant term the call returns (the element the table collapses
\* to after n fold steps) equals the evaluation f(u).
ConstantTermIsEvaluation ==
    mq_pc = "done" => constant_term = Evaluate(poly, u_challenge)

\* a returned call whose folds changed the table: the constant term is
\* neither zero nor the table's first entry
ConstantTermWitness ==
    /\ mq_pc = "done"
    /\ Len(u_challenge) = 2
    /\ constant_term # 0
    /\ constant_term # poly[1]
    /\ Len(g) = 1

(***************************************************************************)
(* Claims about compute_batched_lifted_degree_quotient                     *)
(***************************************************************************)
RECURSIVE LiftedSum(_, _, _, _, _)
\* sum over k < m with i >= n - 2^k of y^k * q_k[i - (n - 2^k)], i 0-based
LiftedSum(qs, y, n, i, m) ==
    IF m = 0 THEN 0
    ELSE LET k == m - 1
             off == n - Pow2(k)
         IN  FAdd(LiftedSum(qs, y, n, i, m - 1),
                  IF i >= off THEN FMul(FPow(y, k), qs[k + 1][i - off + 1]) ELSE 0)

\* C3: for quotients q_0..q_{m-1}, q_k of 2^k coefficients, and 2^{m-1} <= n, the
\* returned polynomial has n coefficients and its coefficient i is the sum over
\* the k with i >= n - 2^k of y^k * q_k[i - (n - 2^k)].
BatchedQuotientIsLiftedSum ==
    (/\ bl_pc = "done"
     /\ \A k \in 1 .. Len(bl_quotients) : Len(bl_quotients[k]) = Pow2(k - 1)
     /\ MinLen(Len(bl_quotients)) <= bl_n)
    => /\ Len(q_hat) = bl_n
       /\ \A i \in 0 .. (bl_n - 1) :
             q_hat[i + 1] = LiftedSum(bl_quotients, y_challenge, bl_n, i,
                                      Len(bl_quotients))

\* a returned call on three quotients whose last coefficient received two
\* non-zero contributions, with a challenge y other than 0 and 1
BatchedQuotientWitness ==
    /\ bl_pc = "done"
    /\ Len(bl_quotients) = 3
    /\ bl_n = 8
    /\ y_challenge > 1
    /\ Cardinality({k \in 1 .. 3 :
                     bl_quotients[k][Len(bl_quotients[k])] # 0}) = 2
    /\ q_hat[8] # 0

(***************************************************************************)
(* Claims about eval_and_quotient_scalars                                  *)
(***************************************************************************)
RECURSIVE PhiSum(_, _)
PhiSum(t, cnt) == IF cnt = 0 THEN 0 ELSE FAdd(PhiSum(t, cnt - 1), FPow(t, cnt - 1))

\* test::phi: Phi_j(t) = sum_{i < 2^j} t^i, by direct summation
Phi(t, j) == PhiSum(t, Pow2(j))

\* test::phi_n_x_evaluation: the division (x^(2^k) - 1) / (x - 1) is defined
\* (x - 1 has an inverse) and its value is Phi_k(x)
ClosedFormMatches(x, k) ==
    /\ FSub(x, 1) # 0
    /\ FMul(FSub(FPow(x, Pow2(k)), 1), FInv(FSub(x, 1))) = Phi(x, k)

\* the Z-scalar the law states for index k, n = Len(u)
ZScalarLaw(x, z, u, k) ==
    LET n == Len(u)
    IN  FNeg(FMul(z,
                  FSub(FMul(FPow(x, Pow2(k)), Phi(FPow(x, Pow2(k + 1)), n - k - 1)),
                       FMul(u[n - k], Phi(FPow(x, Pow2(k)), n - k)))))

\* C4 as stated: for all x, y, z, u and all k < n the k-th Z-scalar equals
\* -z * (x^(2^k) * Phi_{n-k-1}(x^(2^(k+1))) - u[n-1-k] * Phi_{n-k}(x^(2^k))).
ZScalarLawAllX ==
    sc_pc = "done" =>
        \A k \in 0 .. (Len(challenges) - 1) :
            sc_result.zx[k + 1] = ZScalarLaw(x_challenge, z_challenge, challenges, k)

\* C4 as amended: the same law for every x with x^(2^n) # 1 (for the other x
\* the batch inversion meets a zero and the scalars come out as zero).
ZScalarLawNonRoot ==
    (sc_pc = "done" /\ FPow(x_challenge, Pow2(Len(challenges))) # 1) =>
        \A k \in 0 .. (Len(challenges) - 1) :
            sc_result.zx[k + 1] = ZScalarLaw(x_challenge, z_challenge, challenges, k)

\* a returned call with two variables, x^4 # 1, x # 0, two different non-zero
\* coordinates of u and non-zero Z-scalars
ZScalarLawWitness ==
    /\ sc_pc = "done"
    /\ Len(challenges) = 2
    /\ FPow(x_challenge, 4) # 1
    /\ x_challenge # 0
    /\ z_challenge > 1
    /\ challenges[1] # challenges[2]
    /\ challenges[1] # 0 /\ challenges[2] # 0
    /\ sc_result.zx[1] # 0 /\ sc_result.zx[2] # 0

\* C5 as stated: the k-th zeta-scalar equals -y^k * x^(N - 2^k - 1), N = 2^n.
ZetaScalarLawSpec ==
    sc_pc = "done" =>
        \A k \in 0 .. (Len(challenges) - 1) :
            sc_result.zeta[k + 1] =
                FNeg(FMul(FPow(sc_y, k),
                          FPow(x_challenge, Pow2(Len(challenges)) - Pow2(k) - 1)))

\* C5 as amended: the k-th zeta-scalar equals -y^k * x^(N - 2^k), N = 2^n.
ZetaScalarLawShift ==
    sc_pc = "done" =>
        \A k \in 0 .. (Len(challenges) - 1) :
            sc_result.zeta[k + 1] =
                FNeg(FMul(FPow(sc_y, k),
                          FPow(x_challenge, Pow2(Len(challenges)) - Pow2(k))))

\* a returned call with two variables and x, y outside {0, 1, -1}, so that the
\* powers of x and y differ
ZetaScalarLawWitness ==
    /\ sc_pc = "done"
    /\ Len(challenges) = 2
    /\ x_challenge \in 2 .. (Modulus - 2)
    /\ sc_y \in 2 .. (Modulus - 2)
    /\ sc_result.zeta[1] # sc_result.zeta[2]

\* UniPoly::evaluate: coefficients lowest degree first
RECURSIVE UniEval(_, _, _)
UniEval(coeffs, x, cnt) ==
    IF cnt = 0 THEN 0
    ELSE FAdd(UniEval(coeffs, x, cnt - 1), FMul(coeffs[cnt], FPow(x, cnt - 1)))

\* the quotient list q_0..q_{n-1}, q_i of 2^i coefficients, all zero but q_k = 1
UnitQuotients(n, k) ==
    [i \in 1 .. n |-> [j \in 1 .. Pow2(i - 1) |-> IF i = k + 1 /\ j = 1 THEN 1 ELSE 0]]

\* C6: with N = 2^n and d_k = 2^k - 1 the degree of q_k, the k-th zeta-scalar
\* equals -y^k * x^(N - d_k - 1) (for n = 3: -x^7, -y x^6, -y^2 x^4), and that is
\* the negated term y^k X^(N - d_k - 1) q_k which
\* compute_batched_lifted_degree_quotient builds for q_k = 1, evaluated at x.
ZetaScalarIsNegatedShift ==
    sc_pc = "done" =>
        LET n == Len(challenges)
            N == Pow2(Len(challenges))
        IN  \A k \in 0 .. (n - 1) :
                LET d_k == Len(UnitQuotients(n, k)[k + 1]) - 1
                    shifted == BatchedFold(N, UnitQuotients(n, k), sc_y, n)
                IN  /\ sc_result.zeta[k + 1] =
                          FNeg(FMul(FPow(sc_y, k), FPow(x_challenge, N - d_k - 1)))
                    /\ sc_result.zeta[k + 1] = FNeg(UniEval(shifted, x_challenge, N))
                    /\ (n = 3 /\ k = 0) =>
                          sc_result.zeta[1] = FNeg(FPow(x_challenge, 7))
                    /\ (n = 3 /\ k = 1) =>
                          sc_result.zeta[2] = FNeg(FMul(sc_y, FPow(x_challenge, 6)))
                    /\ (n = 3 /\ k = 2) =>
                          sc_result.zeta[3] =
                              FNeg(FMul(FMul(sc_y, sc_y), FPow(x_challenge, 4)))

\* a returned call with the most variables the model holds and non-zero
\* zeta-scalars for x, y outside {0, 1}
ZetaScalarShiftWitness ==
    /\ sc_pc = "done"
    /\ Len(challenges) = 3
    /\ x_challenge > 1
    /\ sc_y > 1
    /\ \A k \in 1 .. Len(challenges) : sc_result.zeta[k] # 0

\* C7 as stated: for every x and every k <= n the closed form
\* (x^(2^k) - 1) / (x - 1) equals the direct sum of the x^i, i < 2^k, and the
\* first returned scalar equals -z * sum_{i < 2^n} x^i.
PhiClosedFormAllX ==
    sc_pc = "done" =>
        /\ \A k \in 0 .. Len(challenges) : ClosedFormMatches(x_challenge, k)
        /\ sc_result.scalar = FNeg(FMul(z_challenge, Phi(x_challenge, Len(challenges))))

\* C7 as amended: the same for every x other than 1 (at x = 1 the closed form
\* divides by zero, and the returned scalar is 0).
PhiClosedFormNotOne ==
    (sc_pc = "done" /\ x_challenge # 1) =>
        /\ \A k \in 0 .. Len(challenges) : ClosedFormMatches(x_challenge, k)
        /\ sc_result.scalar = FNeg(FMul(z_challenge, Phi(x_challenge, Len(challenges))))

\* a returned call with two variables, x a root of unity other than 1 (x^4 = 1)
\* or not one at all, and a non-zero scalar
PhiClosedFormWitness ==
    /\ sc_pc = "done"
    /\ Len(challenges) = 2
    /\ x_challenge > 1
    /\ z_challenge # 0
    /\ sc_result.scalar # 0

(***************************************************************************)
(* UniformSpartanProof: end to end, the outer final-claim check            *)
(***************************************************************************)
\* the instance is satisfied: Az o Bz = Cz for the padded witness
Satisfied(k, segs) ==
    LET w == Resize(Concat(segs, 1), k.num_vars_total)
        Az == MultiplyVecUniform(k.shape_single_step.A, w, k)
        Bz == MultiplyVecUniform(k.shape_single_step.B, w, k)
        Cz == MultiplyVecUniform(k.shape_single_step.C, w, k)
    IN  \A R \in 1 .. k.num_cons_total : FMul(Az[R], Bz[R]) = Cz[R]

\* C8: for a satisfied instance prove_precommitted, when no squeeze of the
\* transcript fails, returns Ok(proof), and verify_precommitted on that proof,
\* with an empty io, returns Ok(())
EndToEndCompleteness ==
    (sp_pc \in {"prove", "verify"} /\ Satisfied(key, w_segments)) =>
        /\ (prover.pc = "done" /\ prover.result # "SqueezeError")
           => prover.result = "Ok"
        /\ (sp_pc = "verify" /\ verifier.pc = "done" /\ corruption.entry = 0
              /\ verifier.line # 345 /\ verifier.result # "SqueezeError")
           => verifier.result = "Ok"

\* a satisfied instance on which both functions have stopped
EndToEndWitness ==
    /\ sp_pc = "verify"
    /\ Satisfied(key, w_segments)
    /\ prover.pc = "done"
    /\ prover.result = "panic"
    /\ corruption.entry = 0
    /\ verifier.pc = "done"
    /\ verifier.line = 500

\* the outer sum-check verification of the call has returned claim_outer_final
OuterVerified(v) ==
    \/ v.pc \in {"r", "inner"}
    \/ v.pc = "done" /\ v.line \in {373, 387, 397, 491, 499, 500}

\* eq(tau, r_x) (claim_Az claim_Bz - claim_Cz), eq the multilinear extension of
\* the equality table of tau
OuterFinalOf(t, r_x, claims) ==
    FMul(Evaluate(EqEvals(t), r_x), FSub(FMul(claims[1], claims[2]), claims[3]))

\* the transcript holds an operation of this kind and label
HasOp(tr, kind, label) == \E i \in 1 .. Len(tr) : tr[i][1] = kind /\ tr[i][2] = label

\* C9: when claim_outer_final differs from eq(tau, r_x) (claim_Az claim_Bz -
\* claim_Cz) of the proof's outer_sumcheck_claims, verify_precommitted has
\* returned Err(InvalidSumcheckProof) without absorbing claims_outer, squeezing
\* r or running a round of the inner sum-check verification
OuterMismatchReturnsFirst ==
    (/\ sp_pc = "verify"
     /\ OuterVerified(verifier)
     /\ verifier.claim_outer_final
          # OuterFinalOf(verifier.tau, verifier.r_x, proof.outer_sumcheck_claims))
    => /\ verifier.pc = "done"
       /\ verifier.result = "InvalidSumcheckProof"
       /\ ~HasOp(verifier.transcript, "absorb", "claims_outer")
       /\ ~HasOp(verifier.transcript, "squeeze", "r")
       /\ verifier.r_y = <<>>
       /\ Len(verifier.transcript) = 2 + 3 * NumRoundsX(key)

\* a call that returned at the outer final-claim check after a round of the
\* outer sum-check
OuterMismatchWitness ==
    /\ sp_pc = "verify"
    /\ OuterVerified(verifier)
    /\ Len(verifier.r_x) >= 1
    /\ verifier.claim_outer_final
         # OuterFinalOf(verifier.tau, verifier.r_x, proof.outer_sumcheck_claims)
    /\ verifier.line = 373

\* outer_sumcheck_claims before the replacement
OriginalClaims ==
    [proof.outer_sumcheck_claims EXCEPT ![corruption.entry] = corruption.original]

\* the call is on a corrupted copy of a proof whose outer final-claim check
\* passes, and has got claim_outer_final
CorruptedAfterPass ==
    /\ sp_pc = "verify"
    /\ corruption.entry # 0
    /\ OuterVerified(verifier)
    /\ verifier.claim_outer_final
         = OuterFinalOf(verifier.tau, verifier.r_x, OriginalClaims)

\* C10 as stated: a call on a copy, with one entry of outer_sumcheck_claims
\* replaced by a different value, of a proof whose outer final-claim check
\* passes returns, when no squeeze of the transcript fails,
\* Err(InvalidSumcheckProof)
CorruptedClaimAlwaysRejected ==
    (CorruptedAfterPass /\ verifier.pc = "done" /\ verifier.result # "SqueezeError")
    => verifier.result = "InvalidSumcheckProof"

\* the replacement changes eq(tau, r_x) (claim_Az claim_Bz - claim_Cz)
ReplacementShows ==
    /\ Evaluate(EqEvals(verifier.tau), verifier.r_x) # 0
    /\ corruption.entry = 1 => proof.outer_sumcheck_claims[2] # 0
    /\ corruption.entry = 2 => proof.outer_sumcheck_claims[1] # 0

\* C10 amended: such a call returns Err(InvalidSumcheckProof), at the outer
\* final-claim check, when eq(tau, r_x) is not zero and, for a replaced
\* claim_Az (claim_Bz), claim_Bz (claim_Az) is not zero
CorruptedClaimRejectedWhenShown ==
    (CorruptedAfterPass /\ ReplacementShows)
    => /\ verifier.pc = "done"
       /\ verifier.result = "InvalidSumcheckProof"
       /\ verifier.line = 373

\* a replaced claim_Az rejected at the outer final-claim check after a round of
\* the outer sum-check
CorruptedClaimWitness ==
    /\ CorruptedAfterPass
    /\ ReplacementShows
    /\ corruption.entry = 1
    /\ Len(verifier.r_x) >= 1
    /\ verifier.line = 373

(***************************************************************************)
(* UniformSpartanProof: the inner final-claim check                        *)
(***************************************************************************)
\* the column of the full shape that step t of a single-step column col maps to
ExpandedCol(col, t, k) ==
    IF col # k.shape_single_step.num_vars THEN col * k.num_steps + t
    ELSE k.num_vars_total

\* the value at (R, Y) of the full shape materialized from the single-step
\* matrix M: the sum of val over the entries (row, col, val) and the steps t
\* with row * N + t = R and expanded column Y
FullValue(M, k, R, Y) ==
    SumSeq([i \in 1 .. Len(M) |->
              SumSeq([s \in 1 .. k.num_steps |->
                        IF M[i][1] * k.num_steps + (s - 1) = R
                              /\ ExpandedCol(M[i][2], s - 1, k) = Y
                        THEN M[i][3] ELSE 0],
                     k.num_steps)],
           Len(M))

\* the multilinear extension of the materialized full shape at (r_x, r_y): the
\* sum over its entries (R, Y, val), one per entry of M and step, of
\* val eq(r_x, R) eq(r_y, Y)
MaterializedEval(M, k, r_x, r_y) ==
    SumSeq([i \in 1 .. Len(M) |->
              SumSeq([s \in 1 .. k.num_steps |->
                        LET R == M[i][1] * k.num_steps + (s - 1)
                            Y == ExpandedCol(M[i][2], s - 1, k)
                        IN  IF R < Pow2(Len(r_x)) /\ Y < Pow2(Len(r_y))
                            THEN FMul(M[i][3], FMul(EqTerm(r_x, R, Len(r_x)),
                                                    EqTerm(r_y, Y, Len(r_y))))
                            ELSE 0],
                     k.num_steps)],
           Len(M))

\* eval_Z from the proof: the segment evaluations selected by r_y[1..n_prefix]
\* and the table (1, commitments, 0, ..) at r_y[1..], joined by r_y[0]
EvalZOf(p, r_y, k) ==
    LET n_prefix == NPrefix(k)
        sel == SubSeq(r_y, 2, n_prefix)
        W == SumSeq([i \in 1 .. Len(p.eval_W) |->
                       FMul(EqTerm(sel, i - 1, Len(sel)), p.eval_W[i])],
                    Len(p.eval_W))
        X == Evaluate(Resize(<<1>> \o p.witness_segment_commitments, k.num_vars_total),
                      SubSeq(r_y, 2, Len(r_y)))
    IN  FAdd(FMul(FSub(1, r_y[1]), W), FMul(r_y[1], X))

\* (A(r_x, r_y) + r B(r_x, r_y) + r^2 C(r_x, r_y)) eval_Z
InnerFinalOf(k, p, r_x, r, r_y) ==
    FMul(FAdd(FAdd(MaterializedEval(k.shape_single_step.A, k, r_x, r_y),
                   FMul(r, MaterializedEval(k.shape_single_step.B, k, r_x, r_y))),
              FMul(FMul(r, r), MaterializedEval(k.shape_single_step.C, k, r_x, r_y))),
         EvalZOf(p, r_y, k))

\* the inner sum-check verification of the call has returned claim_inner_final
InnerVerified(v) == v.pc = "done" /\ v.line \in {491, 499, 500}

\* the number of operations of this kind and label in the transcript
CountOps(tr, kind, label) ==
    Cardinality({i \in 1 .. Len(tr) : tr[i][1] = kind /\ tr[i][2] = label})

\* C11: when claim_inner_final differs from (A(r_x, r_y) + r B(r_x, r_y) +
\* r^2 C(r_x, r_y)) eval_Z, the matrices evaluated from the single-step shape and
\* eval_Z rebuilt from the proof's segment evaluations, verify_precommitted has
\* returned Err(InvalidSumcheckProof) and has not squeezed the batching
\* challenge c: the only squeezes of c are those of the sum-check rounds
InnerMismatchReturns ==
    (/\ sp_pc = "verify"
     /\ InnerVerified(verifier)
     /\ verifier.claim_inner_final
          # InnerFinalOf(key, proof, verifier.r_x, verifier.r, verifier.r_y))
    => /\ verifier.result = "InvalidSumcheckProof"
       /\ verifier.line = 491
       /\ CountOps(verifier.transcript, "squeeze", "c")
            = NumRoundsX(key) + NumRoundsY(key)
       /\ Len(verifier.transcript) = 4 + 3 * NumRoundsX(key) + 2 * NumRoundsY(key)

\* a call that went through every round of the inner sum-check and returned at
\* the inner final-claim check
InnerMismatchWitness ==
    /\ sp_pc = "verify"
    /\ InnerVerified(verifier)
    /\ Len(verifier.r_y) = NumRoundsY(key)
    /\ verifier.claim_inner_final
         # InnerFinalOf(key, proof, verifier.r_x, verifier.r, verifier.r_y)
    /\ verifier.line = 491

(***************************************************************************)
(* UniformSpartanProof: the transcript                                     *)
(***************************************************************************)
\* s is the beginning of t
IsPrefix(s, t) == Len(s) <= Len(t) /\ \A i \in 1 .. Len(s) : s[i] = t[i]

\* operation i of tr absorbs value under label
IsAbsorb(tr, i, label, value) ==
    /\ i <= Len(tr)
    /\ tr[i][1] = "absorb"
    /\ tr[i][2] = label
    /\ tr[i][3] = value

\* operation i of tr squeezes under label
IsSqueeze(tr, i, label) == i <= Len(tr) /\ tr[i] = <<"squeeze", label>>

\* from operation i + 1 on, rounds of a sum-check: the round polynomial
\* absorbed, the challenge squeezed
AreRounds(tr, i, polys) ==
    \A j \in 1 .. Len(polys) :
        /\ IsAbsorb(tr, i + 2 * j - 1, "p", polys[j])
        /\ IsSqueeze(tr, i + 2 * j, "c")

\* the order of the operations of a whole run on the key k: vk, U, the
\* squeezes of t, the outer sum-check, claims_outer, r, the inner sum-check, c
TranscriptInOrder(tr, k, U, outer, claims, inner) ==
    LET nx == NumRoundsX(k)
        ny == NumRoundsY(k)
    IN  /\ Len(tr) = 5 + 3 * nx + 2 * ny
        /\ IsAbsorb(tr, 1, "vk", k.vk_digest)
        /\ IsAbsorb(tr, 2, "U", U)
        /\ \A i \in 1 .. nx : IsSqueeze(tr, 2 + i, "t")
        /\ Len(outer) = nx
        /\ AreRounds(tr, 2 + nx, outer)
        /\ IsAbsorb(tr, 3 + 3 * nx, "claims_outer", claims)
        /\ IsSqueeze(tr, 4 + 3 * nx, "r")
        /\ Len(inner) = ny
        /\ AreRounds(tr, 4 + 3 * nx, inner)
        /\ IsSqueeze(tr, 5 + 3 * nx + 2 * ny, "c")

\* the call of verify_precommitted is on the proof of the prover and no step
\* of it has failed
VerifyingUnfailed ==
    /\ sp_pc = "verify"
    /\ corruption.entry = 0
    /\ \/ verifier.result = "none"
       \/ verifier.result = "panic" /\ verifier.line = 500

\* C12: while no step fails, the transcript operations of verify_precommitted
\* are, one by one, those of prove_precommitted on the same key, and so are the
\* challenges tau, r_x, r, r_y; when the verifier has squeezed c both
\* transcripts are the sequence vk, U, num_rounds_x squeezes of t, the outer
\* sum-check, claims_outer (claim_Az, claim_Bz, claim_Cz), r, the inner
\* sum-check, c
TranscriptOrderAgrees ==
    VerifyingUnfailed =>
        /\ IsPrefix(verifier.transcript, prover.transcript)
        /\ IsPrefix(verifier.tau, prover.tau)
        /\ IsPrefix(verifier.r_x, prover.r_x)
        /\ IsPrefix(verifier.r_y, prover.r_y)
        /\ verifier.pc \in {"inner", "done"} => verifier.r = prover.r
        /\ verifier.pc = "done" =>
              /\ verifier.transcript = prover.transcript
              /\ verifier.tau = prover.tau /\ verifier.r_x = prover.r_x
              /\ verifier.r_y = prover.r_y
              /\ TranscriptInOrder(verifier.transcript, key, witness_commitments,
                                   prover.sc_proof_outer,
                                   SubSeq(prover.claims_outer, 2, 4),
                                   prover.sc_proof_inner)
              /\ TranscriptInOrder(prover.transcript, key,
                                   proof.witness_segment_commitments,
                                   proof.outer_sumcheck_proof,
                                   proof.outer_sumcheck_claims,
                                   proof.inner_sumcheck_proof)

\* a call that went through both sum-checks and squeezed c, with challenges
\* that are not all the same
TranscriptOrderWitness ==
    /\ VerifyingUnfailed
    /\ verifier.pc = "done"
    /\ Len(verifier.r_y) = NumRoundsY(key)
    /\ verifier.transcript = prover.transcript
    /\ \E i \in 1 .. Len(verifier.r_y) : verifier.r_y[i] # verifier.r

\* C13: when verify_precommitted squeezes the last challenge c it has absorbed
\* the five fields of the proof in the order witness_segment_commitments, outer
\* sum-check proof, outer_sumcheck_claims, inner sum-check proof, eval_W
ProofFieldsAbsorbedInOrder ==
    (sp_pc = "verify" /\ verifier.pc = "done" /\ verifier.line = 500) =>
        LET tr == verifier.transcript
            nx == NumRoundsX(key)
            ny == NumRoundsY(key)
        IN  /\ IsAbsorb(tr, 2, "U", proof.witness_segment_commitments)
            /\ AreRounds(tr, 2 + nx, proof.outer_sumcheck_proof)
            /\ IsAbsorb(tr, 3 + 3 * nx, "claims_outer", proof.outer_sumcheck_claims)
            /\ AreRounds(tr, 4 + 3 * nx, proof.inner_sumcheck_proof)
            /\ \E i \in (5 + 3 * nx + 2 * ny) .. (Len(tr) - 1) :
                  tr[i][1] = "absorb" /\ tr[i][3] = proof.eval_W
            /\ IsSqueeze(tr, Len(tr), "c")

\* a call that squeezed c right after the last round of the inner sum-check:
\* the first four fields absorbed in order, eval_W not absorbed
EvalWNotAbsorbed ==
    /\ sp_pc = "verify"
    /\ verifier.pc = "done"
    /\ verifier.line = 500
    /\ IsAbsorb(verifier.transcript, 2, "U", proof.witness_segment_commitments)
    /\ AreRounds(verifier.transcript, 2 + NumRoundsX(key), proof.outer_sumcheck_proof)
    /\ IsAbsorb(verifier.transcript, 3 + 3 * NumRoundsX(key), "claims_outer",
                proof.outer_sumcheck_claims)
    /\ AreRounds(verifier.transcript, 4 + 3 * NumRoundsX(key),
                 proof.inner_sumcheck_proof)
    /\ IsSqueeze(verifier.transcript, 5 + 3 * NumRoundsX(key) + 2 * NumRoundsY(key), "c")
    /\ Len(verifier.transcript) = 5 + 3 * NumRoundsX(key) + 2 * NumRoundsY(key)
    /\ \E i \in 1 .. Len(proof.eval_W) : proof.eval_W[i] # 0

(***************************************************************************)
(* UniformSpartanProof: the outcomes of verify_precommitted                *)
(***************************************************************************)
\* C14: every call of verify_precommitted with an empty io that has ended has
\* returned Ok(()) or Err with a failure reason, that of a sum-check or of a
\* squeeze, also on a proof that passes both final-claim checks; no call ends
\* by an abort
VerifyEndsOkOrErr ==
    (sp_pc = "verify" /\ verifier.pc = "done" /\ verifier.line # 345) =>
        verifier.result \in {"Ok", "InvalidSumcheckProof", "SqueezeError"}

\* a call with an empty io on a proof that passes both final-claim checks, ended
\* by the panic of todo!()
VerifyAbortsAfterChecks ==
    /\ sp_pc = "verify"
    /\ verifier.pc = "done"
    /\ verifier.line = 500
    /\ verifier.result = "panic"
    /\ verifier.claim_outer_final
         = OuterFinalOf(verifier.tau, verifier.r_x, proof.outer_sumcheck_claims)
    /\ verifier.claim_inner_final
         = InnerFinalOf(key, proof, verifier.r_x, verifier.r, verifier.r_y)

(***************************************************************************)
(* Claims about ZeromorphSRS::trim                                         *)
(***************************************************************************)
\* C15: trim(max_degree) with max_degree greater than the number of G1 powers
\* of the SRS returns Err(KeyLengthError(max_degree, srs_length)): no keys, no
\* abort
TrimTooLargeReportsError ==
    (tm_pc = "done" /\ tm_max_degree > Len(srs.g1_powers)) =>
        tm_result = [kind |-> "Err",
                     error |-> <<"KeyLengthError", tm_max_degree, Len(srs.g1_powers)>>,
                     keys |-> <<>>]

\* a call with max_degree greater than the number of G1 powers that ended in
\* the panic of the subtraction at line 60
TrimTooLargeAborts ==
    /\ tm_pc = "done"
    /\ tm_max_degree > Len(srs.g1_powers)
    /\ build = "debug"
    /\ tm_result.kind = "panic"

\* the call ended inside a sum-check verification, at a round whose check
\* failed, not at the squeeze of the round
EndedAtRound(v) ==
    v.pc = "done" /\ v.line \in {366, 397} /\ v.result # "SqueezeError"

\* the call ended at a final-claim comparison
EndedAtFinalClaim(v) == v.pc = "done" /\ v.line \in {373, 491}

\* the error value of a final-claim mismatch (lines 373 and 491)
FinalClaimMismatchError == "InvalidSumcheckProof"

\* C16: the result of verify_precommitted tells a malformed sum-check from a
\* final-claim mismatch: a call that ended at a round inequality does not return
\* the error value of a final-claim mismatch, and a call that ended at a
\* final-claim comparison returns that value
FailuresTypedByStage ==
    sp_pc = "verify" =>
        /\ EndedAtFinalClaim(verifier) => verifier.result = FinalClaimMismatchError
        /\ EndedAtRound(verifier) => verifier.result # FinalClaimMismatchError

\* a call that ended at a round inequality of the outer sum-check with the
\* error value of a final-claim mismatch
RoundFailureUntyped ==
    /\ sp_pc = "verify"
    /\ EndedAtRound(verifier)
    /\ verifier.line = 366
    /\ verifier.result = FinalClaimMismatchError

(***************************************************************************)
(* Claims about the matrix evaluations of UniformSpartanProof              *)
(***************************************************************************)
\* the single-step matrices of a key, in the order A, B, C
MatricesOf(k) == <<k.shape_single_step.A, k.shape_single_step.B, k.shape_single_step.C>>

\* every coordinate of the point is 0 or 1
IsBoolean(r) == \A i \in 1 .. Len(r) : r[i] \in {0, 1}

RECURSIVE IndexOf(_, _)
\* the index whose binary digits, most significant first, are r[1..m]
IndexOf(r, m) == IF m = 0 THEN 0 ELSE 2 * IndexOf(r, m - 1) + r[m]

\* C17: multi_evaluate_uniform evaluates the expansion in which every
\* single-step entry (row, col, val) contributes val at (row N + t, col N + t) for
\* each step t < N, an entry of the constant column at the fixed column
\* num_vars_total for each t, and nothing else: its value for each matrix is the
\* multilinear extension of that expansion at (r_x, r_y), and at a boolean
\* point it is the sum of the contributions at that position
UniformExpansionRule ==
    ev_pc = "done" =>
        \A m \in 1 .. 3 :
            /\ ev_evals[m] = MaterializedEval(MatricesOf(ev_key)[m], ev_key,
                                              ev_r_x, ev_r_y)
            /\ (IsBoolean(ev_r_x) /\ IsBoolean(ev_r_y)) =>
                  ev_evals[m] = FullValue(MatricesOf(ev_key)[m], ev_key,
                                          IndexOf(ev_r_x, Len(ev_r_x)),
                                          IndexOf(ev_r_y, Len(ev_r_y)))

\* the evaluation, over two steps, at the boolean point of a row and of the
\* constant column num_vars_total, where a matrix has an entry
UniformExpansionWitness ==
    /\ ev_pc = "done"
    /\ ev_key.num_steps = 2
    /\ ev_key.shape_single_step.num_vars = 3
    /\ IsBoolean(ev_r_x)
    /\ IsBoolean(ev_r_y)
    /\ IndexOf(ev_r_y, Len(ev_r_y)) = ev_key.num_vars_total
    /\ ev_evals[1] # 0
    /\ ev_evals[3] = 0

\* sum over the rows R of the full shape of FullValue(M, k, R, y) eq(r_x)[R]: the
\* materialized column y of M at r_x
MaterializedColumn(M, k, r_x, y) ==
    SumSeq([R \in 1 .. Pow2(Len(r_x)) |->
              FMul(FullValue(M, k, R - 1, y), EqTerm(r_x, R - 1, Len(r_x)))],
           Pow2(Len(r_x)))

\* the materialized value of RLC_evals[y]: A + r B + r^2 C of column y at r_x
MaterializedRLC(k, r_x, r, y) ==
    FAdd(FAdd(MaterializedColumn(k.shape_single_step.A, k, r_x, y),
              FMul(r, MaterializedColumn(k.shape_single_step.B, k, r_x, y))),
         FMul(FMul(r, r), MaterializedColumn(k.shape_single_step.C, k, r_x, y)))

\* C18: every entry RLC_evals[y], y < 2 num_vars_total, of the table the prover
\* builds from the two factor tables and the constant column equals the
\* materialized full-shape value, and the multilinear extension of the table
\* at r_y equals the verifier's evals[0] + r evals[1] + r^2 evals[2]
TensorTableIsMaterialized ==
    ev_pc = "done" =>
        /\ Len(ev_RLC) = 2 * ev_key.num_vars_total
        /\ \A y \in 0 .. (2 * ev_key.num_vars_total - 1) :
              ev_RLC[y + 1] = MaterializedRLC(ev_key, ev_r_x, ev_r, y)
        /\ Evaluate(ev_RLC, ev_r_y)
              = FAdd(FAdd(ev_evals[1], FMul(ev_r, ev_evals[2])),
                     FMul(FMul(ev_r, ev_r), ev_evals[3]))

\* a table with a non-zero entry at a padding column, between num_vars N and
\* num_vars_total, where the full shape has no entry
TensorTablePaddingFilled ==
    /\ ev_pc = "done"
    /\ \E y \in (ev_key.shape_single_step.num_vars * ev_key.num_steps)
                   .. (ev_key.num_vars_total - 1) :
          /\ ev_RLC[y + 1] # 0
          /\ MaterializedRLC(ev_key, ev_r_x, ev_r, y) = 0
    /\ Evaluate(ev_RLC, ev_r_y)
          # FAdd(FAdd(ev_evals[1], FMul(ev_r, ev_evals[2])),
                 FMul(FMul(ev_r, ev_r), ev_evals[3]))

(***************************************************************************)
(* C19: parallel and sequential execution agree                            *)
(***************************************************************************)
RECURSIVE SequentialMap(_, _, _)
\* the table g and the quotients (in the order computed) after the first i
\* iterations of the map of compute_multilinear_quotients, every for_each run
\* in index order
SequentialMap(tbl, u, i) ==
    IF i = 0 THEN [g |-> tbl, quotients |-> <<>>]
    ELSE LET prev == SequentialMap(tbl, u, i - 1)
             half == Pow2(Len(u) - i)
         IN  [g |-> FoldLo(prev.g, half, u[i]),
              quotients |-> Append(prev.quotients, QuotientOf(prev.g, half))]

\* the quotients returned by the sequential order
SequentialQuotients(tbl, u) == Reverse(SequentialMap(tbl, u, Len(u)).quotients)

\* C19: whatever the order in which the elements of each for_each are visited,
\* the quotients and the constant term returned by
\* compute_multilinear_quotients, and the q_hat returned by
\* compute_batched_lifted_degree_quotient, are those of the sequential order.
ParallelAgreesWithSequential ==
    /\ par_pc \in {"batch", "fold", "acc", "done"} =>
          /\ par_quotients = SequentialQuotients(par_poly, par_u)
          /\ par_constant_term = SequentialMap(par_poly, par_u, Len(par_u)).g[1]
    /\ par_pc = "done" =>
          par_q_hat = BatchedFold(Pow2(Len(par_u)), SequentialQuotients(par_poly, par_u),
                                  par_y, Len(par_u))

\* both functions have returned after a for_each visited its elements out of
\* index order, with a quotient and a q_hat that are not zero
ParallelReorderedWitness ==
    /\ par_pc = "done"
    /\ par_reordered
    /\ Len(par_u) = MaxParVars
    /\ \E i \in 1 .. Len(par_q_hat) : par_q_hat[i] # 0
    /\ \E k \in 1 .. Len(par_quotients) :
          \E j \in 1 .. Len(par_quotients[k]) : par_quotients[k][j] # 0
    /\ par_constant_term # par_poly[1]

(***************************************************************************)
(* C20: zero-skipping preserves the combination function                   *)
(***************************************************************************)
\* C20: for all field values a, b, c, d the closure comb_func_outer returns
\* a * (b * c - d), also when b, c or d is zero.
CombFuncOuterIsPlainFormula ==
    cb_pc = "done" => cb_result = FMul(cb_a, FSub(FMul(cb_b, cb_c), cb_d))

\* the closure has returned on the zero-skipping branch with a non-zero
\* additive term: the value is -a * d, not zero
CombFuncOuterSkipWitness ==
    /\ cb_pc = "done"
    /\ cb_b = 0
    /\ cb_c # 0
    /\ cb_d # 0
    /\ cb_a # 0
    /\ cb_result = FNeg(FMul(cb_a, cb_d))
    /\ cb_result # 0

(***************************************************************************)
(* C21: segment selection in the verifier                                  *)
(***************************************************************************)
\* the number of segments of the proof
NSegments(p) == Len(p.witness_segment_commitments)

\* sel_s at r_y: the product over the n_prefix - 1 bits of s, most significant
\* first, of r_y[1 + j] for a bit 1 and 1 - r_y[1 + j] for a bit 0 (0-based r_y)
SelectorOf(r_y, n_prefix, s) == EqTerm(SubSeq(r_y, 2, n_prefix), s, n_prefix - 1)

\* r_y[1..n_prefix] (0-based) are the bits of s, most significant first
IsSegmentPoint(r_y, n_prefix, s) ==
    \A j \in 1 .. (n_prefix - 1) :
        r_y[1 + j] = (s \div Pow2(n_prefix - 1 - j)) % 2

\* the computation of eval_Z ended with values, and they are those of the rule
SelectionFollowsRule ==
    LET n_prefix == ILog2(sl_key.num_vars_total) - ILog2(sl_key.num_steps) + 1
        N == NSegments(sl_proof)
    IN  /\ sl_result.kind = "value"
        /\ sl_result.n_prefix = n_prefix
        /\ sl_result.eval_W
             = SumSeq([i \in 1 .. N |->
                          FMul(SelectorOf(sl_r_y, n_prefix, i - 1), sl_proof.eval_W[i])], N)
        /\ sl_result.eval_Z
             = FAdd(FMul(FSub(1, sl_r_y[1]), sl_result.eval_W),
                    FMul(sl_r_y[1], sl_result.eval_X))
        /\ \A s \in 0 .. (N - 1) :
              IsSegmentPoint(sl_r_y, n_prefix, s) =>
                  sl_result.eval_W = sl_proof.eval_W[s + 1]

\* C21: with n_prefix = log2(num_vars_total) - log2(num_steps) + 1 and
\* N_SEGMENTS <= 2^(n_prefix - 1), verify_precommitted computes eval_Z =
\* (1 - r_y[0]) eval_W + r_y[0] eval_X, eval_W the sum of sel_i eval_W[i]; the
\* computation is defined, and at the boolean bits of a segment s it gives
\* eval_W[s]
SegmentSelectionDefined ==
    (sl_pc = "done" /\ NSegments(sl_proof) <= Pow2(NPrefix(sl_key) - 1))
    => SelectionFollowsRule

\* a key of a shape of one variable: n_prefix = 1, one segment, and the
\* selector product indexes the empty r_y_witness
SegmentSelectionPanics ==
    /\ sl_pc = "done"
    /\ NPrefix(sl_key) = 1
    /\ NSegments(sl_proof) = 1
    /\ NSegments(sl_proof) <= Pow2(NPrefix(sl_key) - 1)
    /\ sl_result.kind = "panic"

(***************************************************************************)
(* C22: trim succeeds within the SRS                                       *)
(***************************************************************************)
\* trim has returned on a request within the SRS: 1 <= max_degree <= L
TrimWithinSrsReturned ==
    /\ tm_pc = "done"
    /\ 1 <= tm_max_degree
    /\ tm_max_degree <= Len(srs.g1_powers)

\* C22: for 1 <= max_degree <= L, L the number of G1 powers of the SRS,
\* trim(max_degree) returns Ok((pk, vk)) with pk.g1_powers all the G1 powers,
\* pk.offset_g1_powers the last max_degree of them and vk.tau_N_max_sub_2_N the
\* G2 power at index L - max_degree; it does not return KeyLengthError
TrimWithinSrsSucceeds ==
    TrimWithinSrsReturned =>
        LET L == Len(srs.g1_powers)
        IN  /\ tm_result.kind = "Ok"
            /\ tm_result.keys[1].g1_powers = srs.g1_powers
            /\ tm_result.keys[1].offset_g1_powers
                 = SubSeq(srs.g1_powers, L - tm_max_degree + 1, L)
            /\ tm_result.keys[2].tau_N_max_sub_2_N = srs.g2_powers[L - tm_max_degree + 1]

\* a request within the SRS answered with Err(KeyLengthError(max_degree, L))
TrimWithinSrsRefused ==
    /\ TrimWithinSrsReturned
    /\ tm_max_degree < Len(srs.g1_powers)
    /\ tm_result.kind = "Err"
    /\ tm_result.error = <<"KeyLengthError", tm_max_degree, Len(srs.g1_powers)>>

(***************************************************************************)
(* C23: witness padding                                                    *)
(***************************************************************************)
\* the witness batching and resizing have ended
WitnessBuilt == wp_pc = "done"

\* C23: the witness vector of prove_precommitted has length num_vars_total and
\* is the supplied segments concatenated in order followed only by zeros: no
\* supplied entry is dropped, reordered or changed, for every number and length
\* of segments
WitnessIsPaddedSegments ==
    WitnessBuilt =>
        LET supplied == Concat(wp_segments, 1)
        IN  /\ wp_result = "witness"
            /\ Len(wp_witness) = wp_key.num_vars_total
            /\ Len(supplied) <= Len(wp_witness)
            /\ \A i \in 1 .. Len(supplied) : wp_witness[i] = supplied[i]
            /\ \A i \in (Len(supplied) + 1) .. Len(wp_witness) : wp_witness[i] = 0

\* segments holding more entries than num_vars_total: the resize has cut the
\* witness and the last supplied entries are not in it
WitnessEntriesDropped ==
    /\ WitnessBuilt
    /\ wp_result = "witness"
    /\ Len(wp_witness) = wp_key.num_vars_total
    /\ Len(Concat(wp_segments, 1)) > Len(wp_witness)
    /\ Len(wp_segments) = wp_key.shape_single_step.num_vars

====
